---- MODULE Spec2Model ----
(***************************************************************************)
(* A model of the test runner of types-publisher: the package catalog      *)
(* (lib/packages), the classification of git diffs into changed packages,  *)
(* the affected-set resolution, the removal validation, and the pool of    *)
(* listening dtslint workers that runTests drives.                         *)
(***************************************************************************)
EXTENDS Integers, Sequences, FiniteSets, TLC

VARIABLES
    pc,                 \* where runTests / doRunTests stands
    allPackages,        \* the AllPackages catalog read at the start of the run
    diffs,              \* GitDiff[] returned by gitDiff
    selection,          \* what to test: all, affected, or a name pattern
    nProcesses,         \* the --nProcesses argument
    changedIds,         \* PackageId[] handed to getAffectedPackages
    changedPackages,    \* Affected.changedPackages
    dependentPackages,  \* Affected.dependentPackages
    error,              \* the Error that ended the run, or NoError
    installs,           \* the directories doInstalls visited, and the commands it ran
    npm,                \* the npm registry's answers fetched in removal validation
    inputs,             \* the jobs handed to runWithListeningChildProcesses
    outcome,            \* what the dtslint worker does with each job
    inputIndex,         \* index of the next unclaimed job, minus one
    child,              \* the state of each of the nProcesses worker slots
    finished,           \* the pending-job table: jobs with a recorded result
    sent,               \* history: every (worker, job) dispatch, in order
    console,            \* history: the lines printed by gitDiff's run and by handleOutput
    allFailures,        \* doRunTests' allFailures
    working,            \* updateOneAtATime's `working`
    anyUpdatesWhileWorking, \* updateOneAtATime's `anyUpdatesWhileWorking`
    works,              \* the calls of work() that have not returned
    requests,           \* history: the POSTs the webhook server received
    server,             \* whether the webhook server listens
    entries,            \* what typesFS.readdir() lists: names, directory or not
    parallel,           \* parseDefinitions' ParallelOptions, or undefined
    packageNames,       \* parseDefinitions' packageNames
    typingInfos,        \* parseDefinitions' `typings`: its keys with their data
    pending,            \* the inputs the child processes have not answered
    dataFile,           \* what writeDataFile wrote to the types data file
    returned            \* what the last call of hasTypingFor returned

vars == <<pc, allPackages, diffs, selection, nProcesses, changedIds,
          changedPackages, dependentPackages, error, installs, npm, inputs,
          outcome,
          inputIndex, child, finished, sent, console, allFailures,
          working, anyUpdatesWhileWorking, works, requests, server,
          entries, parallel, packageNames, typingInfos, pending, dataFile,
          returned>>

runVars == <<pc, selection, nProcesses, error, installs, npm>>
poolVars == <<inputs, outcome, inputIndex, child, finished, sent, console, allFailures>>
webhookVars == <<working, anyUpdatesWhileWorking, works, requests, server>>
parseVars == <<entries, parallel, packageNames, typingInfos, pending, dataFile>>

-----------------------------------------------------------------------------
(* Bounds of the model.                                                    *)

MaxMajor == 2       \* major versions of a package are 1..MaxMajor
MaxEdges == 2       \* dependency declarations in a generated catalog
MaxChanged == 2     \* changed ids handed to getAffectedPackages
MaxDiffs == 2       \* entries of a git diff
MaxJobs == 3        \* jobs handed to the worker pool on its own
MaxProcs == 2       \* nProcesses ranges over 1..MaxProcs

-----------------------------------------------------------------------------
(* Values.                                                                  *)

\* DependencyVersion = number | "*": the wildcard is kept apart from every major.
Star == -1

Undefined == [undefined |-> TRUE]
NoError == [none |-> TRUE]
\* A call either throws or returns: a thrown Error, or the returned value
\* (wrapped where the value is not itself a record).
Throw(msg, what) == [error |-> msg, what |-> what]
Return(v) == [value |-> v]
IsError(v) == "error" \in DOMAIN v

\* Package names, in the order localeCompare gives them.
NameSeq == <<"alpha", "beta", "foo", "gamma">>
Names == {NameSeq[i] : i \in DOMAIN NameSeq}
NameIndex(n) == CHOOSE i \in DOMAIN NameSeq : NameSeq[i] = n

Majors == 1..MaxMajor
DependencyVersions == {Star} \cup Majors
PackageIds == [name : Names, majorVersion : DependencyVersions]

Max(S) == CHOOSE x \in S : \A y \in S : y <= x

RECURSIVE SubsetsUpTo(_, _)
SubsetsUpTo(S, k) ==
    IF k = 0 THEN {{}}
    ELSE LET smaller == SubsetsUpTo(S, k - 1)
         IN  smaller \cup {s \cup {e} : s \in smaller, e \in S}

-----------------------------------------------------------------------------
(* lib/packages: TypingsData, TypingsVersions, AllPackages.                 *)

\* new TypingsData(data, isLatest), with the getters the test runner reads.
TypingsData(data, isLatest) ==
    [name |-> data.typingsPackageName,
     major |-> data.libraryMajorVersion,
     isLatest |-> isLatest,
     dependencies |-> data.dependencies]

\* get subDirectoryPath: the latest version lives in <name>, others in <name>/v<major>.
subDirectoryPath(pkg) ==
    IF pkg.isLatest THEN <<pkg.name>> ELSE <<pkg.name, "v" \o ToString(pkg.major)>>

\* new TypingsVersions(data): data maps each major version to its raw record.
TypingsVersionsLowestIsLatest(data) ==
    LET versions == DOMAIN data
        latest == CHOOSE v \in versions : \A w \in versions : v <= w
    IN  [latest |-> latest,
         map |-> [version \in versions |-> TypingsData(data[version], version = latest)]]

TypingsVersions(data) ==
    LET versions == DOMAIN data
        latest == Max(versions)
    IN  [latest |-> latest,
         map |-> [version \in versions |-> TypingsData(data[version], version = latest)]]

getAll(versions) == {versions.map[v] : v \in DOMAIN versions.map}

getExact(versions, majorVersion) ==
    IF majorVersion \in DOMAIN versions.map
    THEN versions.map[majorVersion]
    ELSE Throw("Could not find version", ToString(majorVersion))

getLatest(versions) == getExact(versions, versions.latest)

getLatestOnly(versions, majorVersion) == getLatest(versions)

get(versions, majorVersion) ==
    IF majorVersion = Star THEN getLatest(versions) ELSE getExact(versions, majorVersion)

\* AllPackages.tryGetTypingsData: undefined for an unknown name; get() may throw.
tryGetTypingsData(all, id) ==
    IF id.name \notin DOMAIN all.data
    THEN Undefined
    ELSE get(all.data[id.name], id.majorVersion)

hasTypingFor(all, dep) ==
    LET pkg == tryGetTypingsData(all, dep)
    IN  IF IsError(pkg) THEN pkg ELSE Return(pkg # Undefined)

getTypingsDataOrUndefined(all, id) == tryGetTypingsData(all, id)

getTypingsData(all, id) ==
    LET pkg == tryGetTypingsData(all, id)
    IN  IF pkg = Undefined THEN Throw("No typings available for", id.name) ELSE pkg

getLatestVersion(all, packageName) ==
    IF packageName \notin DOMAIN all.data
    THEN Throw("No such package", packageName)
    ELSE getLatest(all.data[packageName])

\* flattenData / AllPackages.allTypings
allTypings(all) == UNION {getAll(all.data[n]) : n \in DOMAIN all.data}

\* AllPackages.dependencyTypings: the dependencies that have typings; a name
\* without typings is skipped, a missing version of a known name throws.
dependencyTypingsSkipStar(all, pkg) ==
    LET known == {d \in pkg.dependencies :
                     d.name \in DOMAIN all.data /\ d.majorVersion # Star}
        found == {get(all.data[d.name], d.majorVersion) : d \in known}
    IN  IF \E t \in found : IsError(t)
        THEN CHOOSE t \in found : IsError(t)
        ELSE Return(found)

dependencyTypings(all, pkg) ==
    LET known == {d \in pkg.dependencies : d.name \in DOMAIN all.data}
        found == {get(all.data[d.name], d.majorVersion) : d \in known}
    IN  IF \E t \in found : IsError(t)
        THEN CHOOSE t \in found : IsError(t)
        ELSE Return(found)

\* AllPackages.getNotNeededPackage (lib/packages, not in this snapshot):
\* the not-needed entry of that name, or undefined.
getNotNeededPackage(all, name) ==
    IF \E p \in all.notNeeded : p.name = name
    THEN CHOOSE p \in all.notNeeded : p.name = name
    ELSE Undefined

-----------------------------------------------------------------------------
(* The persisted registry data a run starts from.                           *)

\* AllPackages.read: one TypingsVersions per name of the data file, and the
\* not-needed list as read from notNeededPackages.json.
read(typesData, notNeededRaw) ==
    [data |-> [n \in DOMAIN typesData |-> TypingsVersions(typesData[n])],
     notNeeded |-> notNeededRaw]

\* The version sets a name can have in a generated data file: 1..k, or none.
VersionSets == {1..k : k \in 0..MaxMajor}

RecordKeys(vs) == UNION {{<<n, v>> : v \in vs[n]} : n \in DOMAIN vs}

\* Candidate dependency declarations: a record on a version of another name.
CandidateEdges(vs) ==
    {[from |-> k, dep |-> [name |-> dn, majorVersion |-> dv]] :
        k \in RecordKeys(vs), dn \in DOMAIN vs, dv \in DependencyVersions}

\* DependenciesRaw maps a package name to one version.
IsDependenciesRaw(E) ==
    \A e1, e2 \in E :
        /\ e1.from[1] # e1.dep.name
        /\ (e1.from = e2.from /\ e1.dep.name = e2.dep.name) => e1 = e2

\* The parsed definitions.json with version sets vs and declarations E.
TypesDataFile(vs, E) ==
    [n \in {m \in DOMAIN vs : vs[m] # {}} |->
        [v \in vs[n] |->
            [typingsPackageName |-> n,
             libraryMajorVersion |-> v,
             dependencies |-> {e.dep : e \in {f \in E : f.from = <<n, v>>}}]]]

TypesDataFiles(names, maxEdges) ==
    UNION {{TypesDataFile(vs, E) :
                E \in {F \in SubsetsUpTo(CandidateEdges(vs), maxEdges) : IsDependenciesRaw(F)}} :
           vs \in [names -> VersionSets]}

-----------------------------------------------------------------------------
(* tester/get-affected-packages (not in this snapshot; modelled from the   *)
(* design: reverse index over all records, closure over one or more hops,  *)
(* minus the changed records, both lists sorted by name and major).        *)

Range(s) == {s[i] : i \in DOMAIN s}

Before(a, b) ==
    \/ NameIndex(a.name) < NameIndex(b.name)
    \/ a.name = b.name /\ a.major < b.major

RECURSIVE sortPackages(_)
sortPackages(S) ==
    IF S = {} THEN <<>>
    ELSE LET first == CHOOSE a \in S : \A b \in S \ {a} : Before(a, b)
         IN  <<first>> \o sortPackages(S \ {first})

\* For every record R and every dependency D it declares, an edge D -> R.
getReverseDependencies(all) ==
    LET records == allTypings(all)
        broken == {R \in records : IsError(dependencyTypings(all, R))}
    IN  IF broken # {}
        THEN dependencyTypings(all, CHOOSE R \in broken : TRUE)
        ELSE Return([D \in records |-> {R \in records : D \in dependencyTypings(all, R).value}])

RECURSIVE transitiveClosure(_, _, _)
transitiveClosure(frontier, seen, rev) ==
    IF frontier = {} THEN seen
    ELSE LET next == UNION {rev[p] : p \in frontier} \ seen
         IN  transitiveClosure(next, seen \cup next, rev)

collectDependersKeepsChanged(changed, rev) == transitiveClosure(changed, {}, rev)

collectDependersFromFirst(changed, rev) ==
    IF changed = {} THEN {}
    ELSE transitiveClosure({sortPackages(changed)[1]}, {}, rev) \ changed

collectDependers(changed, rev) == transitiveClosure(changed, {}, rev) \ changed

\* The records the ids resolve to, in the order of the ids, each once.
RECURSIVE resolvedInOrder(_, _, _)
resolvedInOrder(all, ids, n) ==
    IF n = 0 THEN <<>>
    ELSE LET before == resolvedInOrder(all, ids, n - 1)
             pkg == tryGetTypingsData(all, ids[n])
         IN  IF pkg = Undefined \/ pkg \in Range(before) THEN before
             ELSE Append(before, pkg)

getAffectedPackagesInInputOrder(all, changedPackageIds) ==
    LET resolved == {tryGetTypingsData(all, changedPackageIds[i]) : i \in DOMAIN changedPackageIds}
        changed == resolved \ {Undefined}
        rev == getReverseDependencies(all)
    IN  IF \E t \in resolved : IsError(t) THEN CHOOSE t \in resolved : IsError(t)
        ELSE IF IsError(rev) THEN rev
        ELSE [changedPackages |->
                  resolvedInOrder(all, changedPackageIds, Len(changedPackageIds)),
              dependentPackages |-> sortPackages(collectDependers(changed, rev.value))]

getAffectedPackagesPerId(all, changedPackageIds) ==
    LET found == [i \in DOMAIN changedPackageIds |->
                     tryGetTypingsData(all, changedPackageIds[i])]
        resolved == Range(found)
        changed == resolved \ {Undefined}
        rev == getReverseDependencies(all)
    IN  IF \E t \in resolved : IsError(t) THEN CHOOSE t \in resolved : IsError(t)
        ELSE IF IsError(rev) THEN rev
        ELSE [changedPackages |-> SelectSeq(found, LAMBDA p : p # Undefined),
              dependentPackages |-> sortPackages(collectDependers(changed, rev.value))]

getAffectedPackages(all, changedPackageIds) ==
    LET resolved == {tryGetTypingsData(all, changedPackageIds[i]) : i \in DOMAIN changedPackageIds}
        \* an id that resolves to nothing belongs to a deleted package
        changed == resolved \ {Undefined}
        rev == getReverseDependencies(all)
    IN  IF \E t \in resolved : IsError(t) THEN CHOOSE t \in resolved : IsError(t)
        ELSE IF IsError(rev) THEN rev
        ELSE [changedPackages |-> sortPackages(changed),
              dependentPackages |-> sortPackages(collectDependers(changed, rev.value))]

\* tester/get-affected-packages allDependencies: the packages and everything
\* they depend on, directly or transitively.
RECURSIVE allDependenciesFrom(_, _, _)
allDependenciesFrom(all, frontier, seen) ==
    IF frontier = {} THEN Return(seen)
    ELSE LET broken == {p \in frontier : IsError(dependencyTypings(all, p))}
         IN  IF broken # {}
             THEN dependencyTypings(all, CHOOSE p \in broken : TRUE)
             ELSE LET deps == UNION {dependencyTypings(all, p).value : p \in frontier} \ seen
                  IN  allDependenciesFrom(all, deps, seen \cup deps)

allDependencies(all, packages) == allDependenciesFrom(all, packages, packages)

-----------------------------------------------------------------------------
(* tester/test-runner: git diffs and the packages they touch.  A file path *)
(* is the sequence of its segments, what file.split("/") returns.           *)

\* lib/settings typesDirectoryName
typesDirectoryName == "types"

\* The directory of major version n: "v" followed by its digits.
VersionDirectory(n) == "v" \o ToString(n)

\* lib/definition-parser parseMajorVersionFromDirectoryName (not in this
\* snapshot): the number of a directory named v<digits>, else undefined.
parseMajorVersionFromDirectoryName(directoryName) ==
    IF \E n \in Majors : directoryName = VersionDirectory(n)
    THEN Return(CHOOSE n \in Majors : directoryName = VersionDirectory(n))
    ELSE Undefined

getDependencyFromFileShallow(file) ==
    LET parts == file
    IN  IF Len(parts) < 2 THEN Undefined
        ELSE IF parts[1] # typesDirectoryName THEN Undefined
        ELSE LET name == parts[2]
                 majorVersion == IF Len(parts) >= 3
                                 THEN parseMajorVersionFromDirectoryName(parts[3])
                                 ELSE Undefined
             IN  IF majorVersion # Undefined
                 THEN [name |-> name, majorVersion |-> majorVersion.value]
                 ELSE [name |-> name, majorVersion |-> Star]

\* For "types/a/b/c" { name: "a", version: "*" }, for "types/a/v3/c"
\* { name: "a", version: 3 }, for "x" undefined.
getDependencyFromFile(file) ==
    LET parts == file
    IN  IF Len(parts) <= 2 THEN Undefined
        ELSE IF parts[1] # typesDirectoryName THEN Undefined
        ELSE LET name == parts[2]
                 subDirName == parts[3]
                 majorVersion == IF subDirName # ""
                                 THEN parseMajorVersionFromDirectoryName(subDirName)
                                 ELSE Undefined
             IN  IF majorVersion # Undefined
                 THEN [name |-> name, majorVersion |-> majorVersion.value]
                 ELSE [name |-> name, majorVersion |-> Star]

\* changedPackages.set / versions.add: a Map from name to a Set of versions,
\* both in insertion order.
addChangedPackage(map, dep) ==
    IF \E i \in DOMAIN map : map[i].name = dep.name
    THEN LET i == CHOOSE j \in DOMAIN map : map[j].name = dep.name
         IN  IF dep.majorVersion \in Range(map[i].versions)
             THEN map
             ELSE [map EXCEPT ![i].versions = Append(@, dep.majorVersion)]
    ELSE Append(map, [name |-> dep.name, versions |-> <<dep.majorVersion>>])

\* The for loop of gitChanges over the first n diffs.
RECURSIVE changedPackagesMap(_, _)
changedPackagesMap(ds, n) ==
    IF n = 0 THEN <<>>
    ELSE LET map == changedPackagesMap(ds, n - 1)
             dep == getDependencyFromFile(ds[n].file)
         IN  IF dep # Undefined THEN addChangedPackage(map, dep) ELSE map

\* flatMap(changedPackages, ([name, versions]) => mapIter(versions, ...))
RECURSIVE flatMapIds(_)
flatMapIds(map) ==
    IF map = <<>> THEN <<>>
    ELSE [i \in DOMAIN Head(map).versions |->
             [name |-> Head(map).name, majorVersion |-> Head(map).versions[i]]]
         \o flatMapIds(Tail(map))

gitChanges(ds) == flatMapIds(changedPackagesMap(ds, Len(ds)))

Statuses == {"A", "D", "M"}

\* The files of a package directory that a diff can name.
PackageFiles(name) ==
    {<<typesDirectoryName, name>>,
     <<typesDirectoryName, name, "index.d.ts">>,
     <<typesDirectoryName, name, "lib", VersionDirectory(1), "index.d.ts">>,
     <<"scripts", name, "index.d.ts">>}
    \cup {<<typesDirectoryName, name, VersionDirectory(n)>> : n \in Majors}
    \cup {<<typesDirectoryName, name, VersionDirectory(n), "index.d.ts">> : n \in Majors}

notNeededPackagesJson == <<"notNeededPackages.json">>

DiffNames == {"alpha", "beta"}
DiffFiles == {notNeededPackagesJson} \cup UNION {PackageFiles(n) : n \in DiffNames}

-----------------------------------------------------------------------------
(* States in which a part of the program has not started.                   *)

\* runTests(dt, definitelyTypedPath, nProcesses, selection): "all",
\* "affected", or a RegExp, kept as the set of package names it matches.
SelectAll == [kind |-> "all", matches |-> {}]
SelectAffected == [kind |-> "affected", matches |-> {}]
SelectRegExp(names) == [kind |-> "regex", matches |-> names]

RunNotStarted ==
    /\ pc = "Idle"
    /\ selection = SelectAffected
    /\ nProcesses = 1
    /\ error = NoError
    /\ installs = {}
    /\ npm = <<>>

PoolNotStarted ==
    /\ inputs = <<>>
    /\ outcome = <<>>
    /\ inputIndex = 0
    /\ child = <<>>
    /\ finished = {}
    /\ sent = <<>>
    /\ console = <<>>
    /\ allFailures = <<>>

\* The webhook server listens and no update was asked for.
WebhookNotStarted ==
    /\ working = FALSE
    /\ anyUpdatesWhileWorking = FALSE
    /\ works = <<>>
    /\ requests = <<>>
    /\ server = "listening"

\* parseDefinitions was not called.
ParseNotStarted ==
    /\ entries = <<>>
    /\ parallel = Undefined
    /\ packageNames = <<>>
    /\ typingInfos = <<>>
    /\ pending = {}
    /\ dataFile = Undefined

-----------------------------------------------------------------------------
(* getAffectedPackages on its own: a catalog, and a list of changed ids    *)
(* that grows one id at a time (testAffectedOnly calls it with any list).  *)

CatalogNames == {"alpha", "beta", "gamma"}

InitAffected ==
    /\ WebhookNotStarted
    /\ ParseNotStarted
    /\ returned = Undefined
    /\ \E typesData \in TypesDataFiles(CatalogNames, MaxEdges) :
           allPackages = read(typesData, {})
    /\ diffs = <<>>
    /\ changedIds = <<>>
    /\ changedPackages = <<>>
    /\ dependentPackages = <<>>
    /\ RunNotStarted
    /\ PoolNotStarted

\* testAffectedOnly: getAffectedPackages(allPackages, ids) for a longer id list.
AddChangedId(id) ==
    /\ pc = "Idle"
    /\ Len(changedIds) < MaxChanged
    /\ id \notin Range(changedIds)
    /\ LET ids == Append(changedIds, id)
           affected == getAffectedPackages(allPackages, ids)
       IN  /\ changedIds' = ids
           /\ IF IsError(affected)
              THEN /\ error' = affected
                   /\ UNCHANGED <<changedPackages, dependentPackages>>
              ELSE /\ error' = NoError
                   /\ changedPackages' = affected.changedPackages
                   /\ dependentPackages' = affected.dependentPackages
    /\ UNCHANGED <<pc, allPackages, webhookVars, parseVars, returned, diffs, selection, nProcesses, installs, npm>>
    /\ UNCHANGED poolVars

NextAffected ==
    \E id \in [name : CatalogNames \cup {"foo"}, majorVersion : DependencyVersions] :
        AddChangedId(id)

SpecAffected == InitAffected /\ [][NextAffected]_vars

-----------------------------------------------------------------------------
(* gitChanges on its own: a diff that grows one entry at a time; after     *)
(* each entry changedIds holds gitChanges of the diff so far.               *)

InitChanges ==
    /\ WebhookNotStarted
    /\ ParseNotStarted
    /\ returned = Undefined
    /\ allPackages = read(<<>>, {})
    /\ diffs = <<>>
    /\ changedIds = <<>>
    /\ changedPackages = <<>>
    /\ dependentPackages = <<>>
    /\ RunNotStarted
    /\ PoolNotStarted

AppendDiff(d) ==
    /\ pc = "Idle"
    /\ Len(diffs) < MaxDiffs
    /\ diffs' = Append(diffs, d)
    /\ changedIds' = gitChanges(diffs')
    /\ UNCHANGED <<allPackages, webhookVars, parseVars, returned, changedPackages, dependentPackages>>
    /\ UNCHANGED runVars
    /\ UNCHANGED poolVars

NextChanges == \E d \in [status : Statuses, file : DiffFiles] : AppendDiff(d)

SpecChanges == InitChanges /\ [][NextChanges]_vars

-----------------------------------------------------------------------------
(* doRunTests: the jobs, the pool of listening dtslint workers, the report. *)

OK == "OK"
Crashed == "worker exited"
Outcomes == {"pass", "fail", "crash"}

\* The options doRunTests hands to runWithListeningChildProcesses: one input
\* per package, lenient unless the package is in `changed`.
listeningOptionsPerJob(packages, changed, n) ==
    [inputs |-> [i \in DOMAIN packages |->
                    [path |-> subDirectoryPath(packages[i]),
                     onlyTestTsNext |-> packages[i] \notin changed,
                     expectOnly |-> packages[i] \notin changed]],
     nProcesses |-> Len(packages)]

listeningOptionsAllStrict(packages, changed, n) ==
    [inputs |-> [i \in DOMAIN packages |->
                    [path |-> subDirectoryPath(packages[i]),
                     onlyTestTsNext |-> FALSE,
                     expectOnly |-> FALSE]],
     nProcesses |-> n]

listeningOptions(packages, changed, n) ==
    [inputs |-> [i \in DOMAIN packages |->
                    [path |-> subDirectoryPath(packages[i]),
                     onlyTestTsNext |-> packages[i] \notin changed,
                     expectOnly |-> packages[i] \notin changed]],
     nProcesses |-> n]

\* handleOutput({ path, status }): print the result and keep a failure.
handleOutputDropsOK(output, failures, out) ==
    IF output.status = OK
    THEN [allFailures |-> failures, console |-> out]
    ELSE [allFailures |-> Append(failures, <<output.path, output.status>>),
          console |-> Append(out, [path |-> output.path, line |-> "failing"])]

handleOutputKeepsFirst(output, failures, out) ==
    IF output.status = OK
    THEN [allFailures |-> failures,
          console |-> Append(out, [path |-> output.path, line |-> OK])]
    ELSE [allFailures |-> IF failures = <<>>
                          THEN <<<<output.path, output.status>>>> ELSE failures,
          console |-> Append(out, [path |-> output.path, line |-> "failing"])]

handleOutputLogsOnly(output, failures, out) ==
    IF output.status = OK
    THEN [allFailures |-> failures,
          console |-> Append(out, [path |-> output.path, line |-> OK])]
    ELSE [allFailures |-> failures,
          console |-> Append(out, [path |-> output.path, line |-> "failing"])]

handleOutputSummarises(output, failures, out) ==
    IF output.status = OK
    THEN [allFailures |-> failures,
          console |-> Append(out, [path |-> output.path, line |-> OK])]
    ELSE [allFailures |-> Append(failures, <<output.path, "failed">>),
          console |-> Append(out, [path |-> output.path, line |-> "failing"])]

handleOutput(output, failures, out) ==
    IF output.status = OK
    THEN [allFailures |-> failures,
          console |-> Append(out, [path |-> output.path, line |-> OK])]
    ELSE [allFailures |-> Append(failures, <<output.path, output.status>>),
          console |-> Append(out, [path |-> output.path, line |-> "failing"])]

Listening == [state |-> "listening", job |-> 0]

\* The start of doRunTests: no failures yet, and the pool (util
\* runWithListeningChildProcesses, not in this snapshot) starts its workers
\* in listening mode with the whole job list.
doRunTests(packages, changed, n) ==
    LET options == listeningOptions(packages, changed, n)
    IN  /\ inputs' = options.inputs
        /\ child' = [w \in 1..options.nProcesses |-> Listening]
        /\ inputIndex' = 0
        /\ finished' = {}
        /\ sent' = <<>>
        /\ console' = <<>>
        /\ allFailures' = <<>>

\* A listening worker signals readiness and receives the next unclaimed job.
WorkerReadyStaticPartition(w) ==
    /\ pc = "Running"
    /\ child[w].state = "listening"
    /\ inputIndex < Len(inputs)
    /\ inputIndex % Len(child) = w - 1
    /\ inputIndex' = inputIndex + 1
    /\ child' = [child EXCEPT ![w] = [state |-> "busy", job |-> inputIndex + 1]]
    /\ sent' = Append(sent, <<w, inputIndex + 1>>)
    /\ UNCHANGED <<inputs, outcome, finished, console, allFailures>>
    /\ UNCHANGED <<pc, allPackages, webhookVars, parseVars, returned, diffs, selection, nProcesses, changedIds,
                   changedPackages, dependentPackages, error, installs, npm>>

WorkerReady(w) ==
    /\ pc = "Running"
    /\ child[w].state = "listening"
    /\ inputIndex < Len(inputs)
    /\ inputIndex' = inputIndex + 1
    /\ child' = [child EXCEPT ![w] = [state |-> "busy", job |-> inputIndex + 1]]
    /\ sent' = Append(sent, <<w, inputIndex + 1>>)
    /\ UNCHANGED <<inputs, outcome, finished, console, allFailures>>
    /\ UNCHANGED <<pc, allPackages, webhookVars, parseVars, returned, diffs, selection, nProcesses, changedIds,
                   changedPackages, dependentPackages, error, installs, npm>>

\* The pending-job table marks done the job the output names.
markDoneEarliestPending(output) ==
    finished \cup {j \in DOMAIN inputs : j \notin finished /\ \A k \in 1..(j - 1) : k \in finished}

markDone(output) == finished \cup {j \in DOMAIN inputs : inputs[j].path = output.path}

\* The status a worker reports for a job it completes.
statusOf(j) ==
    IF outcome[j] = "pass" THEN OK ELSE "error in " \o ToString(j)

\* A busy worker completes its job and emits { path, status }.
WorkerOutput(w) ==
    /\ pc = "Running"
    /\ child[w].state = "busy"
    /\ outcome[child[w].job] # "crash"
    /\ LET output == [path |-> inputs[child[w].job].path, status |-> statusOf(child[w].job)]
           handled == handleOutput(output, allFailures, console)
       IN  /\ allFailures' = handled.allFailures
           /\ console' = handled.console
           /\ finished' = markDone(output)
    /\ child' = [child EXCEPT ![w] = Listening]
    /\ UNCHANGED <<inputs, outcome, inputIndex, sent>>
    /\ UNCHANGED <<pc, allPackages, webhookVars, parseVars, returned, diffs, selection, nProcesses, changedIds,
                   changedPackages, dependentPackages, error, installs, npm>>

\* A busy worker exits before emitting a result: its job is recorded as
\* failed and is not dispatched again; a fresh worker listens in its slot.
WorkerCrashHangs(w) ==
    /\ pc = "Running"
    /\ child[w].state = "busy"
    /\ outcome[child[w].job] = "crash"
    /\ child' = [child EXCEPT ![w] = [state |-> "killed", job |-> 0]]
    /\ UNCHANGED <<inputs, outcome, inputIndex, finished, sent, console, allFailures>>
    /\ UNCHANGED <<pc, allPackages, webhookVars, parseVars, returned, diffs, selection, nProcesses, changedIds,
                   changedPackages, dependentPackages, error, installs, npm>>

WorkerCrash(w) ==
    /\ pc = "Running"
    /\ child[w].state = "busy"
    /\ outcome[child[w].job] = "crash"
    /\ LET output == [path |-> inputs[child[w].job].path, status |-> Crashed]
           handled == handleOutput(output, allFailures, console)
       IN  /\ allFailures' = handled.allFailures
           /\ console' = handled.console
           /\ finished' = markDone(output)
    /\ child' = [child EXCEPT ![w] = Listening]
    /\ UNCHANGED <<inputs, outcome, inputIndex, sent>>
    /\ UNCHANGED <<pc, allPackages, webhookVars, parseVars, returned, diffs, selection, nProcesses, changedIds,
                   changedPackages, dependentPackages, error, installs, npm>>

SetupError == Throw("worker could not be started", "dtslint")

\* The process of a listening worker turns out not to have started: the pool
\* kills every worker and rejects, and doRunTests throws at once.
WorkerSetupError(w) ==
    /\ pc = "Running"
    /\ child[w].state = "listening"
    /\ child' = [v \in DOMAIN child |-> [state |-> "killed", job |-> 0]]
    /\ pc' = "Failed"
    /\ error' = SetupError
    /\ UNCHANGED <<inputs, outcome, inputIndex, finished, sent, console, allFailures>>
    /\ UNCHANGED <<allPackages, webhookVars, parseVars, returned, diffs, selection, nProcesses, changedIds,
                   changedPackages, dependentPackages, installs, npm>>

\* Every submitted job has a recorded result: the pool kills its workers and
\* runWithListeningChildProcesses resolves.
PoolDone ==
    /\ pc = "Running"
    /\ finished = DOMAIN inputs
    /\ child' = [w \in DOMAIN child |-> [state |-> "killed", job |-> 0]]
    /\ pc' = "Reporting"
    /\ UNCHANGED <<inputs, outcome, inputIndex, finished, sent, console, allFailures>>
    /\ UNCHANGED <<allPackages, webhookVars, parseVars, returned, diffs, selection, nProcesses, changedIds,
                   changedPackages, dependentPackages, error, installs, npm>>

ReportSucceeds ==
    /\ pc = "Reporting"
    /\ pc' = "Success"
    /\ UNCHANGED <<allPackages, webhookVars, parseVars, returned, diffs, selection, nProcesses, changedIds,
                   changedPackages, dependentPackages, error, installs, npm>>
    /\ UNCHANGED poolVars

\* The end of doRunTests: return if allFailures is empty, else throw.
Report ==
    /\ pc = "Reporting"
    /\ IF Len(allFailures) = 0
       THEN pc' = "Success" /\ UNCHANGED error
       ELSE /\ pc' = "Failed"
            /\ error' = Throw("The following packages had errors",
                              ToString([i \in DOMAIN allFailures |-> allFailures[i][1]]))
    /\ UNCHANGED <<allPackages, webhookVars, parseVars, returned, diffs, selection, nProcesses, changedIds,
                   changedPackages, dependentPackages, installs, npm>>
    /\ UNCHANGED poolVars

Pool ==
    \/ \E w \in DOMAIN child : WorkerReady(w)
    \/ \E w \in DOMAIN child : WorkerOutput(w)
    \/ \E w \in DOMAIN child : WorkerCrash(w)
    \/ \E w \in DOMAIN child : WorkerSetupError(w)
    \/ PoolDone
    \/ Report

\* doRunTests on its own: any list of up to MaxJobs distinct packages, the
\* first ones changed, any pool size, any fixed outcome per job.
PoolPackage(i) ==
    TypingsData([typingsPackageName |-> NameSeq[i], libraryMajorVersion |-> 1,
                 dependencies |-> {}], TRUE)

InitPool ==
    /\ WebhookNotStarted
    /\ ParseNotStarted
    /\ returned = Undefined
    /\ allPackages = read(<<>>, {})
    /\ diffs = <<>>
    /\ changedIds = <<>>
    /\ selection = SelectAffected
    /\ error = NoError
    /\ installs = {}
    /\ npm = <<>>
    /\ pc = "Running"
    /\ nProcesses \in 1..MaxProcs
    /\ \E n \in 0..MaxJobs : \E k \in 0..n :
           /\ changedPackages = [i \in 1..k |-> PoolPackage(i)]
           /\ dependentPackages = [i \in 1..(n - k) |-> PoolPackage(k + i)]
           /\ outcome \in [1..n -> Outcomes]
    /\ LET options == listeningOptions(changedPackages \o dependentPackages,
                                       Range(changedPackages), nProcesses)
       IN  /\ inputs = options.inputs
           /\ child = [w \in 1..options.nProcesses |-> Listening]
    /\ inputIndex = 0
    /\ finished = {}
    /\ sent = <<>>
    /\ console = <<>>
    /\ allFailures = <<>>

SpecPool == InitPool /\ [][Pool]_vars

\* The pool under fair scheduling: a listening worker is eventually served,
\* a busy worker eventually emits its result or exits, and the pool and the
\* report take their steps.
PoolFairness ==
    /\ \A w \in 1..MaxProcs :
           /\ WF_vars(w \in DOMAIN child /\ WorkerReady(w))
           /\ WF_vars(w \in DOMAIN child /\ WorkerOutput(w))
           /\ WF_vars(w \in DOMAIN child /\ WorkerCrash(w))
    /\ WF_vars(PoolDone)
    /\ WF_vars(Report)

SpecPoolFair == InitPool /\ [][Pool]_vars /\ PoolFairness

-----------------------------------------------------------------------------
(* Removal validation: getNotNeededPackages and checkNotNeededPackage.      *)

\* lib/versions Semver (not in this snapshot): major.minor.patch, compared
\* component by component.
greaterThan(a, b) ==
    \/ a[1] > b[1]
    \/ a[1] = b[1] /\ a[2] > b[2]
    \/ a[1] = b[1] /\ a[2] = b[2] /\ a[3] > b[3]

\* new NotNeededPackage(raw): name, libraryName and the parsed asOfVersion.
NotNeededPackage(name, asOfVersion) ==
    [name |-> name, libraryName |-> name, version |-> asOfVersion]

AsOfVersion == <<1, 1, 0>>
PublishedVersions == {<<1, 0, 0>>, <<1, 1, 0>>, <<2, 0, 0>>}

\* What the npm registry can answer for a package: undefined, or its
\* dist-tags (latest, if any) and its versions.
NoTag == <<>>
NpmInfos ==
    {Undefined} \cup
    [latest : {NoTag} \cup PublishedVersions, versions : {{}, {AsOfVersion}}]

checkNotNeededPackageAllowsEqual(unneeded, source, typings) ==
    IF source = Undefined
        THEN Throw("there is no npm package with this name", unneeded.libraryName)
    ELSE IF typings = Undefined
        THEN Throw("@types package not found", unneeded.name)
    ELSE IF typings.latest = NoTag
        THEN Throw("is missing the latest tag", unneeded.name)
    ELSE IF greaterThan(typings.latest, unneeded.version)
        THEN Throw("must be newer than the version it is supposed to replace", unneeded.name)
    ELSE IF unneeded.version \notin source.versions
        THEN Throw("is not on npm", unneeded.name)
    ELSE NoError

checkNotNeededPackage(unneeded, source, typings) ==
    IF source = Undefined
        THEN Throw("there is no npm package with this name", unneeded.libraryName)
    ELSE IF typings = Undefined
        THEN Throw("@types package not found", unneeded.name)
    ELSE IF typings.latest = NoTag
        THEN Throw("is missing the latest tag", unneeded.name)
    ELSE IF ~greaterThan(unneeded.version, typings.latest)
        THEN Throw("must be newer than the version it is supposed to replace", unneeded.name)
    ELSE IF unneeded.version \notin source.versions
        THEN Throw("is not on npm", unneeded.name)
    ELSE NoError

\* new Set(diffs.filter(d => d.status === "D").map(...name)): the names of
\* the deleted packages in insertion order, or the assertDefined error of a
\* deleted file that belongs to no package.
RECURSIVE deletedPackages(_, _)
deletedPackages(ds, n) ==
    IF n = 0 THEN Return(<<>>)
    ELSE LET before == deletedPackages(ds, n - 1)
             dep == getDependencyFromFile(ds[n].file)
         IN  IF IsError(before) \/ ds[n].status # "D" THEN before
             ELSE IF dep = Undefined
                  THEN Throw("Unexpected file deleted", ToString(ds[n].file))
             ELSE IF dep.name \in Range(before.value) THEN before
             ELSE Return(Append(before.value, dep.name))

\* One step of the lazy mapIter in getNotNeededPackages.
notNeededPackageOfSkipsLive(all, p) ==
    LET unneeded == getNotNeededPackage(all, p)
    IN  IF unneeded = Undefined
        THEN Throw("Deleted package is not in notNeededPackages.json", p)
        ELSE unneeded

notNeededPackageOf(all, p) ==
    LET live == hasTypingFor(all, [name |-> p, majorVersion |-> Star])
        unneeded == getNotNeededPackage(all, p)
    IN  IF IsError(live) THEN live
        ELSE IF live.value THEN Throw("Please delete all files in", p)
        ELSE IF unneeded = Undefined
             THEN Throw("Deleted package is not in notNeededPackages.json", p)
        ELSE unneeded

\* The loop of runTests over getNotNeededPackages(allPackages, diffs), with
\* the answers[p] = <<source, typings>> of the registry: the first error,
\* or NoError.
RECURSIVE validateRemovals(_, _, _)
validateRemovals(all, deleted, answers) ==
    IF deleted = <<>> THEN NoError
    ELSE LET unneeded == notNeededPackageOf(all, Head(deleted))
             checked == checkNotNeededPackage(unneeded, answers[Head(deleted)][1],
                                              answers[Head(deleted)][2])
         IN  IF IsError(unneeded) THEN unneeded
             ELSE IF IsError(checked) THEN checked
             ELSE validateRemovals(all, Tail(deleted), answers)

\* if (diffs.find(d => d.file === "notNeededPackages.json")) { ... }
removalCheckWanted(ds) == \E i \in DOMAIN ds : ds[i].file = notNeededPackagesJson

-----------------------------------------------------------------------------
(* runTests.                                                                *)

FailKeepsGoing(e) == pc' = "Installing" /\ error' = e

Fail(e) == pc' = "Failed" /\ error' = e

\* runTests is called: AllPackages.read has run, gitDiff starts.
Start ==
    /\ pc = "Idle"
    /\ pc' = "ResolvingDiff"
    /\ UNCHANGED <<allPackages, webhookVars, parseVars, returned, diffs, selection, nProcesses, changedIds,
                   changedPackages, dependentPackages, error, installs, npm>>
    /\ UNCHANGED poolVars

RunFiles ==
    {notNeededPackagesJson,
     <<typesDirectoryName, "alpha", VersionDirectory(1), "index.d.ts">>} \cup
    {<<typesDirectoryName, name, "index.d.ts">> : name \in {"alpha", "beta", "foo"}}

\* gitDiff returns the parsed lines of `git diff --name-status`, or a git
\* command fails.
GitDiff ==
    /\ pc = "ResolvingDiff"
    /\ \/ /\ \E n \in 1..MaxDiffs : diffs' \in [1..n -> [status : Statuses, file : RunFiles]]
          /\ pc' = "ValidatingRemovals"
          /\ UNCHANGED error
       \/ /\ Fail(Throw("git failed", "git"))
          /\ UNCHANGED diffs
    /\ UNCHANGED <<allPackages, webhookVars, parseVars, returned, selection, nProcesses, changedIds,
                   changedPackages, dependentPackages, installs, npm>>
    /\ UNCHANGED poolVars

\* The loop of lines 141-145 over getNotNeededPackages(allPackages, diffs):
\* the registry's answers are fetched and the first error ends the run.
checkRemovals ==
    LET deleted == deletedPackages(diffs, Len(diffs))
    IN  IF IsError(deleted) THEN Fail(deleted) /\ UNCHANGED npm
        ELSE \E answers \in [Range(deleted.value) -> NpmInfos \X NpmInfos] :
                 LET checked == validateRemovals(allPackages, deleted.value, answers)
                 IN  /\ npm' = answers
                     /\ IF IsError(checked) THEN Fail(checked)
                        ELSE pc' = "ResolvingAffected" /\ UNCHANGED error

\* Lines 138-147 of runTests.
ValidateRemovals ==
    /\ pc = "ValidatingRemovals"
    /\ IF removalCheckWanted(diffs)
       THEN checkRemovals
       ELSE pc' = "ResolvingAffected" /\ UNCHANGED <<error, npm>>
    /\ UNCHANGED <<allPackages, webhookVars, parseVars, returned, diffs, selection, nProcesses, changedIds,
                   changedPackages, dependentPackages, installs>>
    /\ UNCHANGED poolVars

\* Lines 148-151 of runTests: the packages to test, by selection.
selectPackagesFromDiff(all, sel, ds) == getAffectedPackages(all, gitChanges(ds))

selectPackages(all, sel, ds) ==
    IF sel.kind = "all"
    THEN [changedPackages |-> sortPackages(allTypings(all)), dependentPackages |-> <<>>]
    ELSE IF sel.kind = "affected"
    THEN getAffectedPackages(all, gitChanges(ds))
    ELSE [changedPackages |-> sortPackages({t \in allTypings(all) : t.name \in sel.matches}),
          dependentPackages |-> <<>>]

ResolveAffected ==
    /\ pc = "ResolvingAffected"
    /\ changedIds' = IF selection.kind = "affected" THEN gitChanges(diffs) ELSE changedIds
    /\ LET affected == selectPackages(allPackages, selection, diffs)
       IN  IF IsError(affected)
           THEN Fail(affected) /\ UNCHANGED <<changedPackages, dependentPackages>>
           ELSE /\ changedPackages' = affected.changedPackages
                /\ dependentPackages' = affected.dependentPackages
                /\ pc' = "Installing"
                /\ UNCHANGED error
    /\ UNCHANGED <<allPackages, webhookVars, parseVars, returned, diffs, selection, nProcesses, installs, npm>>
    /\ UNCHANGED poolVars

\* The packages doInstalls visits.
toInstallWithoutDependencies ==
    Return(Range(changedPackages) \cup Range(dependentPackages))

toInstall ==
    allDependencies(allPackages, Range(changedPackages) \cup Range(dependentPackages))

Visited == {i.dir : i \in installs}

\* doInstalls, one package: nothing without a package.json (manifest), else
\* `npm install` in its directory (ran), whose failure ends the run.
InstallPackage(p) ==
    /\ pc = "Installing"
    /\ ~IsError(toInstall)
    /\ p \in toInstall.value
    /\ subDirectoryPath(p) \notin Visited
    /\ \E hasPackageJson, installed \in BOOLEAN :
           /\ installs' = installs \cup
                   {[dir |-> subDirectoryPath(p), manifest |-> hasPackageJson,
                     ran |-> hasPackageJson]}
           /\ IF hasPackageJson /\ ~installed
              THEN Fail(Throw("npm install failed", p.name))
              ELSE UNCHANGED <<pc, error>>
    /\ UNCHANGED <<allPackages, webhookVars, parseVars, returned, diffs, selection, nProcesses, changedIds,
                   changedPackages, dependentPackages, npm>>
    /\ UNCHANGED poolVars

\* The dependencies cannot be resolved: allDependencies throws.
InstallFails ==
    /\ pc = "Installing"
    /\ IsError(toInstall)
    /\ Fail(toInstall)
    /\ UNCHANGED <<allPackages, webhookVars, parseVars, returned, diffs, selection, nProcesses, changedIds,
                   changedPackages, dependentPackages, installs, npm>>
    /\ UNCHANGED poolVars

\* runCommand(console, undefined, require.resolve("dtslint"), ["--installAll"]),
\* entered in installs under this name.
installAll == <<"dtslint", "--installAll">>

\* Every package was visited: dtslint --installAll runs, or cannot be
\* started; runCommand returns the error and doInstalls drops it. Then
\* doRunTests starts the pool.
StartTests ==
    /\ pc = "Installing"
    /\ ~IsError(toInstall)
    /\ {subDirectoryPath(p) : p \in toInstall.value} = Visited
    /\ pc' = "Running"
    /\ doRunTests(changedPackages \o dependentPackages, Range(changedPackages), nProcesses)
    /\ outcome' \in [1..(Len(changedPackages) + Len(dependentPackages)) -> Outcomes]
    /\ \E started \in BOOLEAN :
           installs' = installs \cup {[dir |-> installAll, ran |-> started]}
    /\ UNCHANGED <<allPackages, webhookVars, parseVars, returned, diffs, selection, nProcesses, changedIds,
                   changedPackages, dependentPackages, error, npm>>

\* The dependencies beta can declare in a run: alpha@"*", the missing
\* alpha@2, or gamma, which has no typings.
RunDependencies ==
    {[name |-> "alpha", majorVersion |-> Star],
     [name |-> "alpha", majorVersion |-> 2],
     [name |-> "gamma", majorVersion |-> Star]}

\* The catalogs of a run: alpha v1 is live; beta is absent, or live with no
\* dependency or with one of RunDependencies; foo is deleted, with or
\* without an entry in notNeededPackages.json.
RunTypesData ==
    {TypesDataFile(vs, E) :
        vs \in {[n \in {"alpha", "beta"} |-> IF n = "alpha" \/ b THEN {1} ELSE {}] :
                    b \in BOOLEAN},
        E \in {{}} \cup {{[from |-> <<"beta", 1>>, dep |-> d]} : d \in RunDependencies}}

RunCatalogs ==
    {read(typesData, notNeeded) :
        typesData \in {t \in RunTypesData :
                          \A n \in DOMAIN t : \A v \in DOMAIN t[n] :
                              t[n][v].dependencies # {} => "beta" \in DOMAIN t},
        notNeeded \in SUBSET {NotNeededPackage("foo", AsOfVersion)}}

Selections == {SelectAll, SelectAffected, SelectRegExp({"alpha"})}

Init ==
    /\ WebhookNotStarted
    /\ ParseNotStarted
    /\ returned = Undefined
    /\ pc = "Idle"
    /\ allPackages \in RunCatalogs
    /\ selection \in Selections
    /\ nProcesses \in 1..MaxProcs
    /\ diffs = <<>>
    /\ changedIds = <<>>
    /\ changedPackages = <<>>
    /\ dependentPackages = <<>>
    /\ error = NoError
    /\ installs = {}
    /\ npm = <<>>
    /\ PoolNotStarted

Next ==
    \/ Start
    \/ GitDiff
    \/ ValidateRemovals
    \/ ResolveAffected
    \/ \E p \in allTypings(allPackages) : InstallPackage(p)
    \/ InstallFails
    \/ StartTests
    \/ \E w \in DOMAIN child : WorkerReady(w)
    \/ \E w \in DOMAIN child : WorkerOutput(w)
    \/ \E w \in DOMAIN child : WorkerCrash(w)
    \/ \E w \in DOMAIN child : WorkerSetupError(w)
    \/ PoolDone
    \/ Report

Spec == Init /\ [][Next]_vars

-----------------------------------------------------------------------------
(* gitDiff on its own, one git command at a time.  run(cmd) prints         *)
(* "Running: cmd", executes it, and prints its stdout if it succeeded; the *)
(* console shows how far gitDiff has come.                                  *)

\* lib/settings sourceBranch
sourceBranch == "master"

revParse == "git rev-parse --verify " \o sourceBranch
fetchOrigin == "git fetch origin " \o sourceBranch
branchFetchHead == "git branch " \o sourceBranch \o " FETCH_HEAD"
diffBase == "git diff " \o sourceBranch \o " --name-status"
diffParent == "git diff " \o sourceBranch \o "~1 --name-status"

Running(cmd) == [running |-> cmd]
Stdout(out) == [stdout |-> out]

\* The output of `git diff --name-status`: lines of a status and a file.
DiffOutputs ==
    UNION {[1..n -> {<<status, file>> : status \in Statuses, file \in RunFiles}] :
              n \in 0..MaxDiffs}

\* run(cmd): the console after the command succeeded with stdout `out`, or
\* after execAndThrowErrors threw.
run(cmd, ok, out) ==
    console \o <<Running(cmd)>> \o (IF ok THEN <<Stdout(out)>> ELSE <<>>)

\* The command of the last run, and whether that run returned.
LastCommand ==
    IF console = <<>> THEN ""
    ELSE IF "running" \in DOMAIN console[Len(console)]
         THEN console[Len(console)].running
         ELSE console[Len(console) - 1].running
Returned == console # <<>> /\ "stdout" \in DOMAIN console[Len(console)]
LastStdout == console[Len(console)].stdout

\* diff.split("\n").map(line => { status, file }); the one line of an empty
\* diff has no file, and file.trim() throws.
parseDiff(out) ==
    IF out = <<>>
    THEN Throw("Cannot read property 'trim' of undefined", "gitDiff")
    ELSE Return([i \in DOMAIN out |-> [status |-> out[i][1], file |-> out[i][2]]])

\* What gitDiff leaves alone.
notGitDiffVars ==
    <<allPackages, webhookVars, parseVars, returned, selection, nProcesses, changedIds, changedPackages,
      dependentPackages, installs, npm,
      inputs, outcome, inputIndex, child, finished, sent, allFailures>>

\* try { await run(`git rev-parse --verify ${sourceBranch}`) } catch (_) { ... }
gitRevParse ==
    /\ pc = "ResolvingDiff"
    /\ console = <<>>
    /\ \E ok \in BOOLEAN : console' = run(revParse, ok, <<<<"commit">>>>)
    /\ UNCHANGED <<pc, error, diffs>>
    /\ UNCHANGED notGitDiffVars

\* In the catch block: await run(`git fetch origin ${sourceBranch}`)
gitFetchIgnoresFailure ==
    /\ pc = "ResolvingDiff"
    /\ LastCommand = revParse /\ ~Returned
    /\ \E ok \in BOOLEAN : console' = run(fetchOrigin, ok, <<>>)
    /\ UNCHANGED <<pc, error, diffs>>
    /\ UNCHANGED notGitDiffVars

gitFetch ==
    /\ pc = "ResolvingDiff"
    /\ LastCommand = revParse /\ ~Returned
    /\ \E ok \in BOOLEAN :
           /\ console' = run(fetchOrigin, ok, <<>>)
           /\ IF ok THEN UNCHANGED <<pc, error>>
              ELSE Fail(Throw("Command failed", fetchOrigin))
    /\ UNCHANGED diffs
    /\ UNCHANGED notGitDiffVars

\* In the catch block: await run(`git branch ${sourceBranch} FETCH_HEAD`)
gitBranch ==
    /\ pc = "ResolvingDiff"
    /\ LastCommand = fetchOrigin
    /\ \E ok \in BOOLEAN :
           /\ console' = run(branchFetchHead, ok, <<>>)
           /\ IF ok THEN UNCHANGED <<pc, error>>
              ELSE Fail(Throw("Command failed", branchFetchHead))
    /\ UNCHANGED diffs
    /\ UNCHANGED notGitDiffVars

\* let diff = (await run(`git diff ${sourceBranch} --name-status`)).trim();
\* a diff that is not empty is parsed and returned.
gitDiffBase ==
    /\ pc = "ResolvingDiff"
    /\ \/ LastCommand = revParse /\ Returned
       \/ LastCommand = branchFetchHead
    /\ \/ /\ console' = run(diffBase, FALSE, <<>>)
          /\ Fail(Throw("Command failed", diffBase))
          /\ UNCHANGED diffs
       \/ \E out \in DiffOutputs :
              /\ console' = run(diffBase, TRUE, out)
              /\ IF out = <<>>
                 THEN UNCHANGED <<pc, error, diffs>>
                 ELSE /\ diffs' = parseDiff(out).value
                      /\ pc' = "ValidatingRemovals"
                      /\ UNCHANGED error
    /\ UNCHANGED notGitDiffVars

\* if (diff === "") diff = (await run(`git diff ${sourceBranch}~1 --name-status`)).trim();
\* then the diff is parsed and returned.
gitDiffParent ==
    /\ pc = "ResolvingDiff"
    /\ LastCommand = diffBase /\ LastStdout = <<>>
    /\ \/ /\ console' = run(diffParent, FALSE, <<>>)
          /\ Fail(Throw("Command failed", diffParent))
          /\ UNCHANGED diffs
       \/ \E out \in DiffOutputs :
              /\ console' = run(diffParent, TRUE, out)
              /\ IF IsError(parseDiff(out))
                 THEN Fail(parseDiff(out)) /\ UNCHANGED diffs
                 ELSE /\ diffs' = parseDiff(out).value
                      /\ pc' = "ValidatingRemovals"
                      /\ UNCHANGED error
    /\ UNCHANGED notGitDiffVars

InitGitDiff ==
    /\ WebhookNotStarted
    /\ ParseNotStarted
    /\ returned = Undefined
    /\ allPackages = read(<<>>, {})
    /\ pc = "ResolvingDiff"
    /\ selection = SelectAffected
    /\ nProcesses = 1
    /\ error = NoError
    /\ installs = {}
    /\ npm = <<>>
    /\ diffs = <<>>
    /\ changedIds = <<>>
    /\ changedPackages = <<>>
    /\ dependentPackages = <<>>
    /\ PoolNotStarted

NextGitDiff ==
    \/ gitRevParse
    \/ gitFetch
    \/ gitBranch
    \/ gitDiffBase
    \/ gitDiffParent

SpecGitDiff == InitGitDiff /\ [][NextGitDiff]_vars

-----------------------------------------------------------------------------
(* Removal validation on its own: getNotNeededPackages and                  *)
(* checkNotNeededPackage applied to any diff.                               *)

\* alpha v1 is live and foo is not; notNeededPackages.json is empty or has
\* one entry, for either name, with any asOfVersion.
RemovalCatalogs ==
    {read(typesData, notNeeded) :
        typesData \in {t \in RunTypesData : DOMAIN t = {"alpha"}},
        notNeeded \in {{}} \cup {{NotNeededPackage(name, v)} :
                                    name \in {"alpha", "foo"}, v \in PublishedVersions}}

RemovalFiles ==
    {notNeededPackagesJson} \cup
    {<<typesDirectoryName, name, "index.d.ts">> : name \in {"alpha", "foo"}}

InitRemovals ==
    /\ WebhookNotStarted
    /\ ParseNotStarted
    /\ returned = Undefined
    /\ allPackages \in RemovalCatalogs
    /\ \E n \in 1..MaxDiffs : diffs \in [1..n -> [status : Statuses, file : RemovalFiles]]
    /\ pc = "ValidatingRemovals"
    /\ selection = SelectAffected
    /\ nProcesses = 1
    /\ error = NoError
    /\ installs = {}
    /\ npm = <<>>
    /\ changedIds = <<>>
    /\ changedPackages = <<>>
    /\ dependentPackages = <<>>
    /\ PoolNotStarted

CheckRemovals ==
    /\ pc = "ValidatingRemovals"
    /\ checkRemovals
    /\ UNCHANGED <<allPackages, webhookVars, parseVars, returned, diffs, selection, nProcesses, changedIds,
                   changedPackages, dependentPackages, installs>>
    /\ UNCHANGED poolVars

SpecRemovals == InitRemovals /\ [][CheckRemovals]_vars

-----------------------------------------------------------------------------
(* Lookups in the catalog: tryGetTypingsData and getLatestVersion.          *)

\* Any set of major versions for each name, no dependencies.
LookupCatalogs ==
    {read(TypesDataFile(vs, {}), {}) : vs \in [DiffNames -> SUBSET Majors]}

InitLookup ==
    /\ WebhookNotStarted
    /\ ParseNotStarted
    /\ returned = Undefined
    /\ allPackages \in LookupCatalogs
    /\ diffs = <<>>
    /\ changedIds = <<>>
    /\ changedPackages = <<>>
    /\ dependentPackages = <<>>
    /\ RunNotStarted
    /\ PoolNotStarted

\* tryGetTypingsData(id): the id looked up and the record found, if any.
Lookup(id) ==
    /\ pc = "Idle"
    /\ changedIds' = <<id>>
    /\ LET pkg == tryGetTypingsData(allPackages, id)
       IN  IF IsError(pkg)
           THEN error' = pkg /\ changedPackages' = <<>>
           ELSE /\ error' = NoError
                /\ changedPackages' = IF pkg = Undefined THEN <<>> ELSE <<pkg>>
    /\ UNCHANGED <<pc, allPackages, webhookVars, parseVars, returned, diffs, selection, nProcesses, installs, npm,
                   dependentPackages>>
    /\ UNCHANGED poolVars

NextLookup ==
    \E id \in [name : DiffNames \cup {"foo"}, majorVersion : DependencyVersions] :
        Lookup(id)

SpecLookup == InitLookup /\ [][NextLookup]_vars

\* getTypingsData(id) on its own: the id asked for, and the record returned
\* or the Error thrown.
GetTypingsData(id) ==
    /\ pc = "Idle"
    /\ changedIds' = <<id>>
    /\ LET pkg == getTypingsData(allPackages, id)
       IN  IF IsError(pkg)
           THEN error' = pkg /\ changedPackages' = <<>>
           ELSE error' = NoError /\ changedPackages' = <<pkg>>
    /\ UNCHANGED <<pc, allPackages, webhookVars, parseVars, returned, diffs, selection, nProcesses, installs, npm,
                   dependentPackages>>
    /\ UNCHANGED poolVars

NextGet ==
    \E id \in [name : DiffNames \cup {"foo"}, majorVersion : DependencyVersions] :
        GetTypingsData(id)

SpecGet == InitLookup /\ [][NextGet]_vars

\* hasTypingFor(dep) on its own: the id asked for, and the boolean returned
\* or the Error thrown.
HasTypingFor(dep) ==
    /\ pc = "Idle"
    /\ changedIds' = <<dep>>
    /\ LET has == hasTypingFor(allPackages, dep)
       IN  IF IsError(has)
           THEN error' = has /\ returned' = Undefined
           ELSE error' = NoError /\ returned' = has.value
    /\ UNCHANGED <<pc, allPackages, webhookVars, parseVars, diffs, selection, nProcesses,
                   installs, npm, changedPackages, dependentPackages>>
    /\ UNCHANGED poolVars

NextHas ==
    \E dep \in [name : DiffNames \cup {"foo"}, majorVersion : DependencyVersions] :
        HasTypingFor(dep)

SpecHas == InitLookup /\ [][NextHas]_vars

-----------------------------------------------------------------------------
(* webhook: listenToGithub, receiveUpdate and updateOneAtATime.  A call of *)
(* work() stands at `await doOnce(...)` until the update resolves, and      *)
(* goes on with the rest of the loop body when it is resumed.               *)

MaxRequests == 3    \* POSTs the webhook server receives

\* The key the server was started with, and another one.
key == "key"
Keys == {key, "guess"}

\* The bodies github or anybody else can send.
pushToSourceBranch == "{\"ref\":\"refs/heads/master\"}"
pushToOtherBranch == "{\"ref\":\"refs/heads/feature\"}"
noRef == "{}"
notJson == "ref"
Bodies == {pushToSourceBranch, pushToOtherBranch, noRef, notJson}

\* util parseJson (not in this snapshot): the parsed object, or a throw.
parseJson(data) ==
    CASE data = pushToSourceBranch -> [ref |-> "refs/heads/" \o sourceBranch]
      [] data = pushToOtherBranch -> [ref |-> "refs/heads/feature"]
      [] data = noRef -> [ref |-> "undefined"]
      [] OTHER -> Throw("Unexpected token in JSON", data)

\* getDigest: the HMAC of the data under a key, told apart by key and data.
getDigest(k, data) == [sha1 |-> <<k, data>>]

\* What the x-hub-signature header of a POST can be: the digest of its body
\* under some key, or absent.
Signatures(data) == {getDigest(k, data) : k \in Keys} \cup {Undefined}

\* checkSignature(key, data, actualSignature); new Buffer(undefined) throws.
checkSignatureAcceptsAll(k, data, actualSignature) ==
    IF actualSignature = Undefined
    THEN Throw("First argument must be a string, Buffer, ArrayBuffer, Array", "Buffer")
    ELSE Return(TRUE)

checkSignature(k, data, actualSignature) ==
    IF actualSignature = Undefined
    THEN Throw("First argument must be a string, Buffer, ArrayBuffer, Array", "Buffer")
    ELSE Return(getDigest(k, data) = actualSignature)

\* A call of work() at `await doOnce(log, timeStamp)`.
AtDoOnce == "doOnce"
Resumed == "resumed"

\* Every request so far is older than the update that starts now.
served(reqs) == [k \in DOMAIN reqs |-> [reqs[k] EXCEPT !.served = TRUE]]

\* The function updateOneAtATime returns, called by receiveUpdate as
\* onUpdate: undefined while working, else work() up to its first await.
onUpdate(req) ==
    IF working
    THEN /\ anyUpdatesWhileWorking' = TRUE
         /\ requests' = Append(requests, [req EXCEPT !.result = "deferred"])
         /\ UNCHANGED <<working, works, server>>
    ELSE /\ working' = TRUE
         /\ anyUpdatesWhileWorking' = FALSE
         /\ works' = Append(works, AtDoOnce)
         /\ requests' = served(Append(requests, [req EXCEPT !.result = "started"]))
         /\ UNCHANGED server

\* onError: server.close(), reopenIssue, process.exit(1).
onError(req) ==
    /\ server' = "closed"
    /\ requests' = Append(requests, [req EXCEPT !.result = "error"])
    /\ UNCHANGED <<working, anyUpdatesWhileWorking, works>>

\* receiveUpdate(data, headers) for one POST.
receiveUpdate(data, signature) ==
    LET req == [data |-> data, signature |-> signature, result |-> "",
                during |-> \E i \in DOMAIN works : works[i] = AtDoOnce,
                served |-> FALSE]
        signed == checkSignature(key, data, signature)
        body == parseJson(data)
    IN  IF IsError(signed) THEN onError(req)
        ELSE IF ~signed.value
        THEN /\ requests' = Append(requests, [req EXCEPT !.result = "rejected"])
             /\ UNCHANGED <<working, anyUpdatesWhileWorking, works, server>>
        ELSE IF IsError(body) THEN onError(req)
        ELSE IF body.ref = "refs/heads/" \o sourceBranch THEN onUpdate(req)
        ELSE /\ requests' = Append(requests, [req EXCEPT !.result = "ignored"])
             /\ UNCHANGED <<working, anyUpdatesWhileWorking, works, server>>

\* A POST arrives: req.on("data", data => receiveUpdate(data, req.headers)).
\* The continuation of an await runs before the next event is handled, so no
\* event is taken while a call of work() stands between doOnce and its rest.
Post(data, signature) ==
    /\ server = "listening"
    /\ \A j \in DOMAIN works : works[j] # Resumed
    /\ Len(requests) < MaxRequests
    /\ receiveUpdate(data, signature)
    /\ UNCHANGED <<pc, allPackages, parseVars, returned, diffs, selection, nProcesses, changedIds,
                   changedPackages, dependentPackages, error, installs, npm>>
    /\ UNCHANGED poolVars

\* The update of the i-th call of work() resolves.
DoOnceResolves(i) ==
    /\ server = "listening"
    /\ \A j \in DOMAIN works : works[j] # Resumed
    /\ works[i] = AtDoOnce
    /\ works' = [works EXCEPT ![i] = Resumed]
    /\ UNCHANGED <<working, anyUpdatesWhileWorking, requests, server>>
    /\ UNCHANGED <<pc, allPackages, parseVars, returned, diffs, selection, nProcesses, changedIds,
                   changedPackages, dependentPackages, error, installs, npm>>
    /\ UNCHANGED poolVars

\* The update rejects: update.catch(onError) closes the server and exits.
DoOnceRejects(i) ==
    /\ server = "listening"
    /\ \A j \in DOMAIN works : works[j] # Resumed
    /\ works[i] = AtDoOnce
    /\ server' = "closed"
    /\ UNCHANGED <<working, anyUpdatesWhileWorking, works, requests>>
    /\ UNCHANGED <<pc, allPackages, parseVars, returned, diffs, selection, nProcesses, changedIds,
                   changedPackages, dependentPackages, error, installs, npm>>
    /\ UNCHANGED poolVars

\* The rest of the loop body of work(): working = false, and doOnce again
\* while anyUpdatesWhileWorking, else work() returns.
WorkResumes(i) ==
    /\ server = "listening"
    /\ works[i] = Resumed
    /\ working' = FALSE
    /\ IF anyUpdatesWhileWorking
       THEN works' = [works EXCEPT ![i] = AtDoOnce] /\ requests' = served(requests)
       ELSE /\ works' = [k \in 1..(Len(works) - 1) |->
                            IF k < i THEN works[k] ELSE works[k + 1]]
            /\ UNCHANGED requests
    /\ UNCHANGED <<anyUpdatesWhileWorking, server>>
    /\ UNCHANGED <<pc, allPackages, parseVars, returned, diffs, selection, nProcesses, changedIds,
                   changedPackages, dependentPackages, error, installs, npm>>
    /\ UNCHANGED poolVars

InitWebhook ==
    /\ allPackages = read(<<>>, {})
    /\ diffs = <<>>
    /\ changedIds = <<>>
    /\ changedPackages = <<>>
    /\ dependentPackages = <<>>
    /\ RunNotStarted
    /\ PoolNotStarted
    /\ WebhookNotStarted
    /\ ParseNotStarted
    /\ returned = Undefined

NextWebhook ==
    \/ \E data \in Bodies : \E signature \in Signatures(data) : Post(data, signature)
    \/ \E i \in DOMAIN works : DoOnceResolves(i)
    \/ \E i \in DOMAIN works : DoOnceRejects(i)
    \/ \E i \in DOMAIN works : WorkResumes(i)

SpecWebhook == InitWebhook /\ [][NextWebhook]_vars

\* Every update completes and every call of work() that was resumed goes on.
WebhookFairness ==
    \A i \in 1..MaxRequests :
        /\ WF_vars(i \in DOMAIN works /\ DoOnceResolves(i))
        /\ WF_vars(i \in DOMAIN works /\ WorkResumes(i))

SpecWebhookFair == InitWebhook /\ [][NextWebhook]_vars /\ WebhookFairness

-----------------------------------------------------------------------------
(* From a record to a file of its directory and back to the catalog.        *)

\* What follows the package directory in the path of one of its files.
FileTails ==
    {<<"index.d.ts">>, <<"lib", "index.d.ts">>} \cup
    {<<VersionDirectory(n), "index.d.ts">> : n \in Majors}

\* A file under types/<pkg.subDirectoryPath>/ is classified and the id is
\* resolved in the catalog: getDependencyFromFile, then tryGetTypingsData.
ResolveFile(pkg, tail) ==
    /\ pc = "Idle"
    /\ LET file == <<typesDirectoryName>> \o subDirectoryPath(pkg) \o tail
           id == getDependencyFromFile(file)
           found == IF id = Undefined THEN Undefined
                    ELSE tryGetTypingsData(allPackages, id)
       IN  /\ diffs' = <<[status |-> "M", file |-> file]>>
           /\ changedIds' = IF id = Undefined THEN <<>> ELSE <<id>>
           /\ IF IsError(found)
              THEN error' = found /\ changedPackages' = <<>>
              ELSE /\ error' = NoError
                   /\ changedPackages' = IF found = Undefined THEN <<>> ELSE <<found>>
    /\ UNCHANGED <<pc, allPackages, webhookVars, parseVars, returned, selection, nProcesses, installs, npm,
                   dependentPackages>>
    /\ UNCHANGED poolVars

NextPath ==
    \E pkg \in allTypings(allPackages) : \E tail \in FileTails : ResolveFile(pkg, tail)

SpecPath == InitLookup /\ [][NextPath]_vars

-----------------------------------------------------------------------------
(* parse-definitions: parseDefinitions fills `typings` from the package     *)
(* directories, one after the other or from the outputs of child processes, *)
(* and writes the types data file.  An object is the sequence of its keys   *)
(* with their values, in the order the keys were inserted.                  *)

\* What types/ can hold: package directories and a file.
DirectoryEntries ==
    {[name |-> n, isDirectory |-> TRUE] : n \in {"alpha", "beta", "foo"}}
    \cup {[name |-> "README.md", isDirectory |-> FALSE]}

\* typesFS.readdir(): some of the entries, each once, in any order.
Listings ==
    {l \in UNION {[1..n -> DirectoryEntries] : n \in 0..Cardinality(DirectoryEntries)} :
        \A i, j \in DOMAIN l : l[i] = l[j] => i = j}

\* util filterNAtATimeOrdered (not in this snapshot): the inputs that pass
\* the test, in the order of the inputs; shouldKeep is the set that passes.
filterNAtATimeOrdered(n, list, shouldKeep) ==
    SelectSeq(list, LAMBDA input : input \in shouldKeep)

\* lib/definition-parser getTypingInfo (not in this snapshot): the raw
\* versions of a package, a function of its directory.
getTypingInfo(packageName) ==
    TypesDataFile([n \in {packageName} |-> Majors], {})[packageName]

\* handleOutput of parseDefinitions: typings[packageName] = data.
setTypingInfo(obj, output) ==
    IF \E i \in DOMAIN obj : obj[i].packageName = output.packageName
    THEN [i \in DOMAIN obj |->
             IF obj[i].packageName = output.packageName THEN output ELSE obj[i]]
    ELSE Append(obj, output)

\* sorted(obj): the keys sorted, each with its value.
sortedAsInserted(obj) == obj

sorted(obj) ==
    [k \in DOMAIN obj |->
        CHOOSE e \in Range(obj) :
            Cardinality({f \in Range(obj) :
                NameIndex(f.packageName) < NameIndex(e.packageName)}) = k - 1]

\* The object as a map from its keys to their values.
asMap(obj) ==
    [n \in {e.packageName : e \in Range(obj)} |->
        (CHOOSE e \in Range(obj) : e.packageName = n).data]

\* parseDefinitions up to the parsing: the directories of types/ are the
\* packages; in parallel they are all handed to runWithChildProcesses.
FindPackages ==
    /\ pc = "Idle"
    /\ packageNames' =
           LET dirs == filterNAtATimeOrdered(
                           IF parallel = Undefined THEN 1 ELSE parallel.nProcesses,
                           entries, {e \in Range(entries) : e.isDirectory})
           IN  [i \in DOMAIN dirs |-> dirs[i].name]
    /\ pending' = IF parallel = Undefined THEN {}
                  ELSE {e.name : e \in {f \in Range(entries) : f.isDirectory}}
    /\ pc' = "Parsing"
    /\ UNCHANGED <<entries, parallel, typingInfos, dataFile>>
    /\ UNCHANGED <<allPackages, webhookVars, returned, diffs, selection, nProcesses, changedIds,
                   changedPackages, dependentPackages, error, installs, npm>>
    /\ UNCHANGED poolVars

\* One turn of the loop `for (const packageName of packageNames)`.
ParseNext ==
    /\ pc = "Parsing"
    /\ parallel = Undefined
    /\ Len(typingInfos) < Len(packageNames)
    /\ LET packageName == packageNames[Len(typingInfos) + 1]
       IN  typingInfos' = setTypingInfo(typingInfos,
               [data |-> getTypingInfo(packageName), packageName |-> packageName])
    /\ UNCHANGED <<entries, parallel, packageNames, pending, dataFile>>
    /\ UNCHANGED <<pc, allPackages, webhookVars, returned, diffs, selection, nProcesses, changedIds,
                   changedPackages, dependentPackages, error, installs, npm>>
    /\ UNCHANGED poolVars

\* util runWithChildProcesses (not in this snapshot): a child process sends
\* the output for one of its inputs; the outputs arrive in any order.
ChildOutput(packageName) ==
    /\ pc = "Parsing"
    /\ packageName \in pending
    /\ pending' = pending \ {packageName}
    /\ typingInfos' = setTypingInfo(typingInfos,
           [data |-> getTypingInfo(packageName), packageName |-> packageName])
    /\ UNCHANGED <<entries, parallel, packageNames, dataFile>>
    /\ UNCHANGED <<pc, allPackages, webhookVars, returned, diffs, selection, nProcesses, changedIds,
                   changedPackages, dependentPackages, error, installs, npm>>
    /\ UNCHANGED poolVars

\* After the parsing: writeDataFile(typesDataFilename, sorted(typings)) and
\* AllPackages.from(typings, ...).
WriteDataFile ==
    /\ pc = "Parsing"
    /\ IF parallel = Undefined THEN Len(typingInfos) = Len(packageNames)
       ELSE pending = {}
    /\ dataFile' = sorted(typingInfos)
    /\ allPackages' = read(asMap(typingInfos), {})
    /\ pc' = "Written"
    /\ UNCHANGED <<entries, parallel, packageNames, typingInfos, pending>>
    /\ UNCHANGED <<webhookVars, returned, diffs, selection, nProcesses, changedIds,
                   changedPackages, dependentPackages, error, installs, npm>>
    /\ UNCHANGED poolVars

InitParse ==
    /\ entries \in Listings
    /\ parallel \in {Undefined} \cup {[nProcesses |-> n] : n \in 1..MaxProcs}
    /\ packageNames = <<>>
    /\ typingInfos = <<>>
    /\ pending = {}
    /\ dataFile = Undefined
    /\ allPackages = read(<<>>, {})
    /\ diffs = <<>>
    /\ changedIds = <<>>
    /\ changedPackages = <<>>
    /\ dependentPackages = <<>>
    /\ RunNotStarted
    /\ PoolNotStarted
    /\ WebhookNotStarted
    /\ returned = Undefined

NextParse ==
    \/ FindPackages
    \/ ParseNext
    \/ \E packageName \in pending : ChildOutput(packageName)
    \/ WriteDataFile

SpecParse == InitParse /\ [][NextParse]_vars

-----------------------------------------------------------------------------
(* Properties of the affected-set resolution.                               *)

\* P declares a dependency that names record D: its exact major, or "*"
\* while D is the latest version of its name.
DependsOn(P, D) ==
    \E d \in P.dependencies :
        /\ d.name = D.name
        /\ \/ d.majorVersion = D.major
           \/ d.majorVersion = Star /\ D.isLatest

\* A reverse-dependency path of 1..n hops leads from record `from` to `to`.
RECURSIVE ReversePath(_, _, _)
ReversePath(from, to, n) ==
    \/ DependsOn(to, from)
    \/ /\ n > 1
       /\ \E m \in allTypings(allPackages) :
              DependsOn(m, from) /\ ReversePath(m, to, n - 1)

DependsOnChanged(P) ==
    \E c \in Range(changedPackages) :
        ReversePath(c, P, Cardinality(allTypings(allPackages)))

Resolved == pc = "Idle" /\ changedIds # <<>> /\ error = NoError

\* C5 as stated: P is in dependentPackages iff a reverse-dependency path of
\* length >= 1 leads from some changed package to P.
C5_DependentIffPath ==
    Resolved =>
        \A P \in allTypings(allPackages) :
            P \in Range(dependentPackages) <=> DependsOnChanged(P)

\* C5 amended: P is in dependentPackages iff such a path exists and P is not
\* itself one of the changed packages.
C5_DependentIffPathAndNotChanged ==
    Resolved =>
        \A P \in allTypings(allPackages) :
            P \in Range(dependentPackages)
                <=> (P \notin Range(changedPackages) /\ DependsOnChanged(P))

\* A dependent that no changed package reaches in one hop.
C5_Witness ==
    /\ Resolved
    /\ \E P \in Range(dependentPackages) :
           \A c \in Range(changedPackages) : ~DependsOn(P, c)

\* C6 as stated: a longer changed-id list never loses a dependent package.
C6_Monotonic ==
    [][(error = NoError /\ error' = NoError)
          => Range(dependentPackages) \subseteq Range(dependentPackages')]_vars

\* C6 amended: a package that was dependent stays dependent or becomes one
\* of the changed packages when the changed-id list grows.
C6_MonotonicUpToChanged ==
    [][(error = NoError /\ error' = NoError)
          => /\ Range(dependentPackages)
                    \subseteq Range(dependentPackages') \cup Range(changedPackages')
             /\ Range(changedPackages) \subseteq Range(changedPackages')]_vars

\* The list grew to two ids, and a former dependent is now a changed package.
C6_Witness ==
    /\ Resolved
    /\ Len(changedIds) = 2
    /\ Len(changedPackages) = 2
    /\ dependentPackages # <<>>
    /\ \E P \in Range(changedPackages) : DependsOnChanged(P)

\* C8: a package without a dependency path to a changed package is in
\* neither list; in the alpha/beta/gamma catalog with beta depending on
\* alpha@"*" and a modified file under alpha, changedPackages is alpha alone,
\* dependentPackages is beta alone, gamma is in neither.
NoDependencies(name) ==
    [typingsPackageName |-> name, libraryMajorVersion |-> 1, dependencies |-> {}]

ScenarioTypesData ==
    [n \in CatalogNames |->
        [v \in {1} |->
            IF n = "beta"
            THEN [NoDependencies(n) EXCEPT
                     !.dependencies = {[name |-> "alpha", majorVersion |-> Star]}]
            ELSE NoDependencies(n)]]

ScenarioDiff == <<[status |-> "M", file |-> <<typesDirectoryName, "alpha", "index.d.ts">>]>>

InScenario ==
    /\ allPackages = read(ScenarioTypesData, {})
    /\ changedIds = gitChanges(ScenarioDiff)

C8_UnrelatedExcluded ==
    /\ Resolved =>
          \A P \in allTypings(allPackages) :
              (~DependsOnChanged(P) /\ \A i \in DOMAIN changedIds :
                                            tryGetTypingsData(allPackages, changedIds[i]) # P)
                  => P \notin Range(changedPackages) \cup Range(dependentPackages)
    /\ (Resolved /\ InScenario) =>
          /\ {P.name : P \in Range(changedPackages)} = {"alpha"}
          /\ {P.name : P \in Range(dependentPackages)} = {"beta"}
          /\ Len(changedPackages) = 1
          /\ Len(dependentPackages) = 1

C8_Witness == Resolved /\ InScenario /\ dependentPackages # <<>>

-----------------------------------------------------------------------------
(* Properties of gitChanges.                                                *)

\* The path lies under the types root with at least root/name/file, and id is
\* the name with the major of a v<digits> directory, or "*".
Touches(file, id) ==
    /\ Len(file) >= 3
    /\ file[1] = "types"
    /\ id.name = file[2]
    /\ id.majorVersion =
           IF \E n \in Majors : file[3] = VersionDirectory(n)
           THEN CHOOSE n \in Majors : file[3] = VersionDirectory(n)
           ELSE Star

\* C9: gitChanges returns each touched (name, majorVersion) pair exactly
\* once, and nothing for paths outside the types root or with fewer than
\* three segments.
C9_OneIdPerTouchedPair ==
    (pc = "Idle" /\ allPackages = read(<<>>, {})) =>
        /\ \A i, j \in DOMAIN changedIds : changedIds[i] = changedIds[j] => i = j
        /\ \A i \in DOMAIN changedIds :
               \E k \in DOMAIN diffs : Touches(diffs[k].file, changedIds[i])
        /\ \A k \in DOMAIN diffs :
               \A id \in [name : {diffs[k].file[j] : j \in DOMAIN diffs[k].file},
                          majorVersion : DependencyVersions] :
                   Touches(diffs[k].file, id) => id \in Range(changedIds)

\* Two major versions of one name, kept apart.
C9_Witness ==
    /\ Len(diffs) = 2
    /\ Len(changedIds) = 2
    /\ changedIds[1].name = changedIds[2].name
    /\ changedIds[1].majorVersion # changedIds[2].majorVersion

-----------------------------------------------------------------------------
(* Properties of the worker pool under doRunTests.                          *)

Dispatches(j) == {i \in DOMAIN sent : sent[i][2] = j}
Results(j) == {i \in DOMAIN console : console[i].path = inputs[j].path}
Failures(j) == {i \in DOMAIN allFailures : allFailures[i][1] = inputs[j].path}
Holders(j) == {w \in DOMAIN child : child[w].state = "busy" /\ child[w].job = j}
InFlight == {j \in DOMAIN inputs : Dispatches(j) # {} /\ j \notin finished}
Live == {w \in DOMAIN child : child[w].state # "killed"}
\* The run is past Running, and not because a worker could not be started.
PoolEnded == pc \in {"Reporting", "Success", "Failed"} /\ error # SetupError

\* The verdict the run's output gives job j.
Verdict(j) ==
    IF Failures(j) # {} THEN "Failed"
    ELSE IF \E i \in Results(j) : console[i].line = OK THEN "OK"
    ELSE "none"

OutOfOrder ==
    \E a, b \in DOMAIN console :
        a < b /\ \E j, k \in DOMAIN inputs :
                    j > k /\ console[a].path = inputs[j].path
                          /\ console[b].path = inputs[k].path

\* C1: every submitted job is handed to exactly one worker exactly once and
\* gets exactly one recorded result: at any moment a job has at most one
\* dispatch and at most one result, a result only after its dispatch, one
\* holder while it is in flight, and when the pool has ended every job has
\* exactly one dispatch and exactly one result.
C1_EachJobExactlyOnce ==
    \A j \in DOMAIN inputs :
        /\ Cardinality(Dispatches(j)) <= 1
        /\ Cardinality(Results(j)) = IF j \in finished THEN 1 ELSE 0
        /\ pc = "Running" => Cardinality(Holders(j)) = IF j \in InFlight THEN 1 ELSE 0
        /\ j \in finished => Dispatches(j) # {}
        /\ PoolEnded => Cardinality(Dispatches(j)) = 1 /\ Cardinality(Results(j)) = 1

C1_Witness ==
    /\ pc = "Reporting"
    /\ Len(inputs) >= 3
    /\ nProcesses >= 2
    /\ \E a, b \in DOMAIN sent : sent[a][1] # sent[b][1]
    /\ OutOfOrder

\* C2: in every state the number of jobs dispatched and not yet recorded is
\* at most nProcesses, and so is the number of live worker processes.
C2_InFlightBounded ==
    /\ Cardinality(InFlight) <= nProcesses
    /\ Cardinality(Live) <= nProcesses

C2_Witness ==
    /\ pc = "Running"
    /\ nProcesses >= 2
    /\ Cardinality(InFlight) = nProcesses
    /\ inputIndex < Len(inputs)

\* C3: a job whose worker exits before emitting a result is recorded as
\* failed, once, and is not dispatched again; the workers stay alive while
\* the pool runs and every other job still gets its own result; with three
\* jobs, two workers and a crash on job 2 only, the report is OK, Failed, OK,
\* the run fails and the failure list holds job 2 alone.
C3_CrashFailsOnlyItsJob ==
    /\ \A j \in DOMAIN inputs :
           /\ outcome[j] = "crash" /\ j \in finished =>
                  /\ Cardinality(Dispatches(j)) = 1
                  /\ Cardinality(Failures(j)) = 1
                  /\ \A i \in Failures(j) : allFailures[i][2] = Crashed
           /\ outcome[j] = "pass" /\ j \in finished => Verdict(j) = "OK"
           /\ PoolEnded => j \in finished
    /\ pc = "Running" => \A w \in DOMAIN child : child[w].state \in {"listening", "busy"}
    /\ (/\ Len(inputs) = 3
        /\ nProcesses = 2
        /\ outcome = <<"pass", "crash", "pass">>
        /\ PoolEnded
        /\ pc \in {"Success", "Failed"})
       => /\ pc = "Failed"
          /\ [j \in DOMAIN inputs |-> Verdict(j)] = <<"OK", "Failed", "OK">>
          /\ allFailures = <<<<inputs[2].path, Crashed>>>>

C3_Witness ==
    /\ Len(inputs) = 3
    /\ nProcesses = 2
    /\ outcome = <<"pass", "crash", "pass">>
    /\ pc = "Failed"
    /\ PoolEnded
    /\ console[1].path = inputs[2].path

\* C4: when the pool has ended, the pass/fail verdict of every job is the
\* one its fixed outcome dictates, whatever nProcesses is and in whatever
\* order the jobs completed; so two runs of one job list with the same
\* outcomes end with the same map.
C4_VerdictsIndependentOfPoolSize ==
    PoolEnded =>
        [j \in DOMAIN inputs |-> Verdict(j)] =
            [j \in DOMAIN inputs |-> IF outcome[j] = "pass" THEN "OK" ELSE "Failed"]

C4_Witness ==
    /\ PoolEnded
    /\ nProcesses = MaxProcs
    /\ OutOfOrder
    /\ Cardinality({j \in DOMAIN inputs : outcome[j] # "pass"}) >= 2
    /\ \E j \in DOMAIN inputs : outcome[j] = "pass"

-----------------------------------------------------------------------------
(* Properties of runTests.                                                  *)

\* C7: in every state of a run, under every selection, no package record is
\* both in changedPackages and in dependentPackages.
C7_ChangedAndDependentDisjoint ==
    Range(changedPackages) \cap Range(dependentPackages) = {}

C7_Witness ==
    /\ pc = "Installing"
    /\ selection = SelectAffected
    /\ \E c, d \in Range(changedPackages) : DependsOn(c, d)

DeletedFile(name) ==
    \E i \in DOMAIN diffs :
        /\ diffs[i].status = "D"
        /\ getDependencyFromFile(diffs[i].file) # Undefined
        /\ getDependencyFromFile(diffs[i].file).name = name

\* C10: a run whose diff deletes a file of foo while foo has no entry in
\* notNeededPackages.json fails in removal validation with an error naming
\* foo, and never installs or starts a worker.
C10_DeletedWithoutEntryStopsRun ==
    DeletedFile("foo") /\ getNotNeededPackage(allPackages, "foo") = Undefined =>
        /\ pc \in {"ValidatingRemovals", "Failed"}
        /\ pc = "Failed" => error.what = "foo"
        /\ installs = {}
        /\ child = <<>>

\* The place of each orchestrator state in the order of a run.
Rank(state) ==
    CASE state = "Idle" -> 0
      [] state = "ResolvingDiff" -> 1
      [] state = "ValidatingRemovals" -> 2
      [] state = "ResolvingAffected" -> 3
      [] state = "Installing" -> 4
      [] state = "Running" -> 5
      [] state = "Reporting" -> 6
      [] state \in {"Success", "Failed"} -> 7

\* C11: every change of orchestrator state goes one place forward in Idle,
\* ResolvingDiff, ValidatingRemovals, ResolvingAffected, Installing, Running,
\* Reporting, Success/Failed, or jumps to Failed; Success and Failed are never
\* left, Success follows Reporting only, and a jump to Failed out of
\* ValidatingRemovals or ResolvingAffected happens with no install run and no
\* worker started.
C11_StatesInOrder ==
    [][/\ pc \in {"Success", "Failed"} => pc' = pc
       /\ pc' # pc => (pc' = "Failed" \/ Rank(pc') = Rank(pc) + 1)
       /\ pc' = "Success" /\ pc # "Success" => pc = "Reporting"
       /\ pc \in {"ValidatingRemovals", "ResolvingAffected"} /\ pc' = "Failed"
              => installs' = {} /\ child' = <<>> /\ sent' = <<>>]_vars

C11_Witness ==
    /\ pc = "Failed"
    /\ error.error = "Deleted package is not in notNeededPackages.json"
    /\ installs = {}
    /\ child = <<>>

-----------------------------------------------------------------------------
(* Properties of the report of doRunTests.                                  *)

\* The pool ran to its end: its workers were started and all were killed.
ReachedReporting ==
    /\ pc \in {"Reporting", "Success", "Failed"}
    /\ child # <<>>
    /\ error # SetupError
    /\ \A w \in DOMAIN child : child[w].state = "killed"

\* The status the pool handed to handleOutput for a finished job.
StatusOfJob(j) == IF outcome[j] = "crash" THEN Crashed ELSE statusOf(j)

\* C12: once a run has reached Reporting, it ends Failed, with an error
\* thrown, iff allFailures is non-empty and ends in Success iff it is empty;
\* and a finished job has an entry in allFailures exactly when its status is
\* not the token OK.
C12_FailedIffFailures ==
    /\ ReachedReporting =>
           /\ pc = "Failed" => allFailures # <<>> /\ error # NoError
           /\ pc = "Success" => allFailures = <<>> /\ error = NoError
    /\ \A j \in finished : Failures(j) # {} <=> StatusOfJob(j) # OK

C12_Witness ==
    /\ ReachedReporting
    /\ pc = "Failed"
    /\ \E j \in DOMAIN inputs : StatusOfJob(j) = OK
    /\ \E j \in DOMAIN inputs : StatusOfJob(j) # OK

\* The job an entry of allFailures belongs to.
JobOf(failure) == CHOOSE j \in DOMAIN inputs : inputs[j].path = failure[1]

\* C13: the failure list is in the order of the jobs, whatever the order in
\* which their results arrived.
C13_FailuresInJobOrder ==
    \A a, b \in DOMAIN allFailures :
        a < b => JobOf(allFailures[a]) < JobOf(allFailures[b])

\* C14: a failing job does not stop the run: the run leaves Running only
\* when every job was dispatched once and has a result, and then allFailures
\* holds exactly one entry, the path with the whole status text, for each job
\* whose status is not OK, and nothing else.
C14_FailuresAccumulate ==
    /\ pc = "Running" /\ allFailures # <<>> =>
           \A w \in DOMAIN child : child[w].state \in {"listening", "busy"}
    /\ PoolEnded =>
           /\ \A j \in DOMAIN inputs :
                  /\ Cardinality(Dispatches(j)) = 1
                  /\ j \in finished
                  /\ Cardinality(Failures(j)) = IF StatusOfJob(j) # OK THEN 1 ELSE 0
                  /\ \A i \in Failures(j) :
                         allFailures[i] = <<inputs[j].path, StatusOfJob(j)>>
           /\ Len(allFailures) = Cardinality({j \in DOMAIN inputs : StatusOfJob(j) # OK})

C14_Witness ==
    /\ pc = "Failed"
    /\ PoolEnded
    /\ Len(inputs) >= 3
    /\ Len(allFailures) >= 2
    /\ console[1].line = "failing"
    /\ \E i \in DOMAIN console : console[i].line = OK

\* C15: once doRunTests has started the pool there is exactly one job per
\* package of changedPackages followed by dependentPackages, with distinct
\* paths; the jobs of changedPackages are strict (onlyTestTsNext and
\* expectOnly false) and the jobs of dependentPackages are lenient (both
\* true).
C15_StrictChangedLenientDependent ==
    child # <<>> =>
        LET packages == changedPackages \o dependentPackages
        IN  /\ Len(inputs) = Len(packages)
            /\ \A i \in DOMAIN inputs :
                   /\ inputs[i].path = subDirectoryPath(packages[i])
                   /\ inputs[i].onlyTestTsNext = (i > Len(changedPackages))
                   /\ inputs[i].expectOnly = (i > Len(changedPackages))
                   /\ inputs[i].onlyTestTsNext = (packages[i] \notin Range(changedPackages))
            /\ \A i, k \in DOMAIN inputs : inputs[i].path = inputs[k].path => i = k

C15_Witness ==
    /\ pc = "Running"
    /\ selection = SelectAffected
    /\ changedPackages # <<>>
    /\ dependentPackages # <<>>

InstallAllNotStarted == [dir |-> installAll, ran |-> FALSE] \in installs

\* C16: when an install command or a worker cannot be started the run is
\* Failed at once: after dtslint --installAll could not be started no worker
\* exists, after an npm install failed no worker exists, and after a worker
\* could not be started every worker is killed and the run is Failed.
C16_SetupErrorFailsRun ==
    /\ InstallAllNotStarted => pc = "Failed" /\ child = <<>>
    /\ IsError(error) /\ error.error = "npm install failed" =>
           pc = "Failed" /\ child = <<>>
    /\ error = SetupError =>
           pc = "Failed" /\ \A w \in DOMAIN child : child[w].state = "killed"

AllKilled == \A w \in DOMAIN child : child[w].state = "killed"

\* C17: under fair scheduling, unless a worker cannot be started, the pool
\* eventually has a recorded result for every submitted job and has shut
\* down all of its workers.
C17_PoolTerminates ==
    <>(error = SetupError \/ (finished = DOMAIN inputs /\ AllKilled))

C17_Witness ==
    /\ pc = "Reporting"
    /\ nProcesses >= 2
    /\ finished = DOMAIN inputs
    /\ AllKilled
    /\ \E j \in DOMAIN inputs : outcome[j] = "crash"
    /\ \E j \in DOMAIN inputs : outcome[j] # "crash"

-----------------------------------------------------------------------------
(* Properties of removal validation.                                        *)

\* A version as one number, for comparing versions.
Weight(v) == v[1] * 10000 + v[2] * 100 + v[3]

IsLive(p) == \E t \in allTypings(allPackages) : t.name = p
HasEntry(p) == \E u \in allPackages.notNeeded : u.name = p
EntryOf(p) == CHOOSE u \in allPackages.notNeeded : u.name = p
RemovalsChecked == pc \in {"ResolvingAffected", "Failed"}

\* What the registry must have answered for p's removal to be valid.
Replaced(p) ==
    LET source == npm[p][1]
        typings == npm[p][2]
    IN  /\ source # Undefined
        /\ typings # Undefined
        /\ typings.latest # NoTag
        /\ Weight(EntryOf(p).version) > Weight(typings.latest)
        /\ EntryOf(p).version \in source.versions

\* C18: with every deleted package gone from the catalog and entered in
\* notNeededPackages.json, validation succeeds iff for each of them the
\* replacement package and the @types package are on npm, the @types package
\* has a latest tag, the entry's version is strictly greater than it, and
\* that version is among the published versions of the replacement package.
C18_ReplacementNewerAndPublished ==
    RemovalsChecked /\ npm # <<>>
            /\ (\A p \in DOMAIN npm : ~IsLive(p) /\ HasEntry(p)) =>
        (error = NoError <=> \A p \in DOMAIN npm : Replaced(p))

C18_Witness ==
    /\ pc = "ResolvingAffected"
    /\ npm # <<>>
    /\ \A p \in DOMAIN npm : npm[p][2].latest = <<1, 0, 0>>

\* C19: once the removals of a diff were checked, a deleted file of a package
\* that is still live, or of one that has no entry in notNeededPackages.json,
\* has made the check fail, with the error naming the package when it is the
\* first deleted one and every deleted file is a package's; the check passes only if every deleted package has no
\* live record and has an entry.
C19_DeletedMustBeGoneAndEntered ==
    RemovalsChecked =>
        /\ \A p \in Names :
               DeletedFile(p) /\ (IsLive(p) \/ ~HasEntry(p)) => pc = "Failed"
        /\ error = NoError =>
               \A p \in Names : DeletedFile(p) => ~IsLive(p) /\ HasEntry(p)
        /\ \A p \in Names :
               (/\ ~IsError(deletedPackages(diffs, Len(diffs)))
                /\ diffs[1].status = "D"
                /\ getDependencyFromFile(diffs[1].file) = [name |-> p, majorVersion |-> Star]) =>
                   /\ IsLive(p) => error = Throw("Please delete all files in", p)
                   /\ ~IsLive(p) /\ ~HasEntry(p) =>
                          error = Throw("Deleted package is not in notNeededPackages.json", p)

C19_Witness ==
    /\ pc = "Failed"
    /\ error = Throw("Please delete all files in", "alpha")
    /\ HasEntry("alpha")

-----------------------------------------------------------------------------
(* Properties of the catalog lookups.                                       *)

RecordsOf(name) == {t \in allTypings(allPackages) : t.name = name}
TopOf(name) ==
    CHOOSE t \in RecordsOf(name) : \A u \in RecordsOf(name) : u.major <= t.major

\* C20: for every name of the catalog, the lookup with "*" and
\* getLatestVersion both give the record with the greatest major version of
\* that name, the lookup with a major version that is present gives the record
\* of that version, and the records flagged isLatest are that greatest one
\* alone; the record found for the id just looked up is the one so described.
C20_LatestIsMaximum ==
    /\ \A name \in DOMAIN allPackages.data :
           /\ tryGetTypingsData(allPackages, [name |-> name, majorVersion |-> Star])
                  = TopOf(name)
           /\ getLatestVersion(allPackages, name) = TopOf(name)
           /\ \A t \in RecordsOf(name) :
                  tryGetTypingsData(allPackages, [name |-> name, majorVersion |-> t.major]) = t
           /\ {t \in RecordsOf(name) : t.isLatest} = {TopOf(name)}
    /\ changedPackages # <<>> =>
           /\ changedPackages[1].name = changedIds[1].name
           /\ IF changedIds[1].majorVersion = Star
              THEN changedPackages[1] = TopOf(changedIds[1].name)
              ELSE changedPackages[1].major = changedIds[1].majorVersion

C20_Witness ==
    /\ changedIds # <<>>
    /\ changedIds[1].majorVersion = Star
    /\ changedPackages # <<>>
    /\ changedPackages[1].major >= 2
    /\ Cardinality(RecordsOf(changedIds[1].name)) >= 2

\* C21: after getTypingsData(id) with an exact major version, a record was
\* returned exactly when the name is in the catalog and has that major
\* version, the record returned is the one of that name and version, and in
\* every other case (name absent, or name present without that version) an
\* Error was thrown and nothing was returned.
C21_GetReturnsExactOrFails ==
    (changedIds # <<>> /\ changedIds[1].majorVersion # Star) =>
        LET id == changedIds[1]
            present == \E t \in RecordsOf(id.name) : t.major = id.majorVersion
        IN  IF present
            THEN /\ error = NoError
                 /\ Len(changedPackages) = 1
                 /\ changedPackages[1] \in RecordsOf(id.name)
                 /\ changedPackages[1].major = id.majorVersion
            ELSE /\ IsError(error)
                 /\ changedPackages = <<>>

\* A name that is absent, and a name that is present without the version
\* asked for, each with its Error; and a record returned.
C21_Witness ==
    /\ changedIds # <<>>
    /\ changedIds[1].majorVersion = 2
    /\ RecordsOf(changedIds[1].name) # {}
    /\ \A t \in RecordsOf(changedIds[1].name) : t.major = 1
    /\ IsError(error)

\* C22: in the catalog that AllPackages.read built, no name is both a key of
\* the live typings map and the name of an entry of the not-needed list.
C22_LiveAndNotNeededDisjoint ==
    \A p \in allPackages.notNeeded : p.name \notin DOMAIN allPackages.data

\* Properties of the resolution of dependencies.

\* The dependency names no record of the catalog: its name is unknown, or
\* its exact major version is not present under that name.
Unresolvable(d) ==
    \/ d.name \notin DOMAIN allPackages.data
    \/ d.majorVersion # Star /\ d.majorVersion \notin DOMAIN allPackages.data[d.name].map

Tested == Range(changedPackages) \cup Range(dependentPackages)

\* C23: once the dependencies of the packages under test have been resolved
\* (doInstalls is over and the tests run), none of them declares a dependency
\* on an unknown name or on a major version that is not in the catalog: such
\* a declaration has ended the run with an Error.
C23_UnresolvableDependencyFailsRun ==
    pc \in {"Running", "Reporting", "Success"} =>
        \A p \in Tested : \A d \in p.dependencies : ~Unresolvable(d)

-----------------------------------------------------------------------------
(* Properties of the changed ids of a run.                                  *)

\* Every diff entry that touches the id has status Deleted.
DeletedOnly(id) ==
    /\ \E k \in DOMAIN diffs : getDependencyFromFile(diffs[k].file) = id
    /\ \A k \in DOMAIN diffs :
           getDependencyFromFile(diffs[k].file) = id => diffs[k].status = "D"

\* C24: in a run on the affected packages whose removals were validated and
\* accepted, the ids handed to getAffectedPackages hold no id that comes from
\* Deleted diff entries alone.
C24_DeletedIdsNotResolved ==
    (/\ selection = SelectAffected
     /\ npm # <<>>
     /\ pc \in {"Installing", "Running", "Reporting", "Success"}) =>
        \A i \in DOMAIN changedIds : ~DeletedOnly(changedIds[i])

\* The diff entry names a file of a package directory under the types root.
InPackage(d) == getDependencyFromFile(d.file) # Undefined

\* C25: a diff entry outside the types root, or too shallow to be in a
\* package, has no effect on a run whatever its status: the changed ids are
\* those of the diff without such entries, and no such entry is the cause of
\* the Error that ended the run.
C25_EntriesOutsidePackagesIgnored ==
    /\ changedIds # <<>> => changedIds = gitChanges(SelectSeq(diffs, InPackage))
    /\ \A k \in DOMAIN diffs :
           ~InPackage(diffs[k]) =>
               error # Throw("Unexpected file deleted", ToString(diffs[k].file))

-----------------------------------------------------------------------------
(* Properties of doInstalls.                                                *)

\* The packages under test and every record one of them depends on, over
\* one or more declarations.
NeededForTests ==
    {p \in allTypings(allPackages) :
        \/ p \in Tested
        \/ \E t \in Tested : ReversePath(p, t, Cardinality(allTypings(allPackages)))}

PackageInstalls == {i \in installs : i.dir # installAll}

-----------------------------------------------------------------------------
(* Properties of gitDiff.                                                   *)

Position(cmd) == {i \in DOMAIN console : console[i] = Running(cmd)}
Ran(cmd) == Position(cmd) # {}
Pos(cmd) == CHOOSE i \in Position(cmd) : TRUE
Succeeded(cmd) ==
    \E i \in Position(cmd) : i < Len(console) /\ "stdout" \in DOMAIN console[i + 1]
OutputOf(cmd) == console[Pos(cmd) + 1].stdout
GitCommands == {revParse, fetchOrigin, branchFetchHead, diffBase, diffParent}

\* C27: every git command runs at most once; the fetch runs only after
\* rev-parse failed and the branch is created only after the fetch
\* succeeded; the diff against the base runs only after rev-parse succeeded
\* or after the fetch and the branch both succeeded; the diff against the
\* base's parent runs only after the diff against the base returned nothing,
\* and gitDiff returns a diff that came from the parent iff the one against
\* the base was empty; a fetch, branch or diff that fails is the last command
\* and ends the run with its Error.
C27_DiffAcquisitionInOrder ==
    /\ \A cmd \in GitCommands : Cardinality(Position(cmd)) <= 1
    /\ Ran(fetchOrigin) =>
           Ran(revParse) /\ ~Succeeded(revParse) /\ Pos(revParse) < Pos(fetchOrigin)
    /\ Ran(branchFetchHead) =>
           Succeeded(fetchOrigin) /\ Pos(fetchOrigin) < Pos(branchFetchHead)
    /\ Ran(diffBase) =>
           /\ Ran(revParse) /\ Pos(revParse) < Pos(diffBase)
           /\ \/ Succeeded(revParse)
              \/ Succeeded(branchFetchHead) /\ Pos(branchFetchHead) < Pos(diffBase)
    /\ Ran(diffParent) =>
           /\ Succeeded(diffBase) /\ Pos(diffBase) < Pos(diffParent)
           /\ OutputOf(diffBase) = <<>>
    /\ pc = "ValidatingRemovals" =>
           /\ Succeeded(diffBase)
           /\ Ran(diffParent) <=> OutputOf(diffBase) = <<>>
           /\ LET out == IF Ran(diffParent) THEN OutputOf(diffParent)
                                            ELSE OutputOf(diffBase)
              IN  /\ Len(diffs) = Len(out)
                  /\ \A i \in DOMAIN out :
                         diffs[i].status = out[i][1] /\ diffs[i].file = out[i][2]
    /\ \A cmd \in GitCommands \ {revParse} :
           Ran(cmd) /\ ~Succeeded(cmd) =>
               /\ Pos(cmd) = Len(console)
               /\ pc = "Failed"
               /\ error = Throw("Command failed", cmd)

\* A shallow clone already at the base: fetch, branch, an empty diff
\* against the base, and the diff against its parent is returned.
C27_Witness ==
    /\ pc = "ValidatingRemovals"
    /\ Succeeded(branchFetchHead)
    /\ Succeeded(diffParent)
    /\ diffs # <<>>

-----------------------------------------------------------------------------
(* Properties of the selection.                                             *)

Selected == pc \in {"Installing", "Running", "Reporting", "Success"}

\* C28: once the packages are selected, with "all" the changed packages are
\* the records of the catalog, each once; with a RegExp they are the records
\* whose name it matches, each once; in both cases there is no dependent
\* package and every job handed to the workers is strict; with "affected"
\* every changed package is one that a diff entry names.
C28_SelectionDecidesPackages ==
    Selected =>
        /\ selection.kind = "all" => Range(changedPackages) = allTypings(allPackages)
        /\ selection.kind = "regex" =>
               Range(changedPackages) =
                   {t \in allTypings(allPackages) : t.name \in selection.matches}
        /\ selection.kind \in {"all", "regex"} =>
               /\ Len(changedPackages) = Cardinality(Range(changedPackages))
               /\ dependentPackages = <<>>
               /\ \A j \in DOMAIN inputs :
                      ~inputs[j].onlyTestTsNext /\ ~inputs[j].expectOnly
        /\ selection.kind = "affected" =>
               \A t \in Range(changedPackages) :
                   \E k \in DOMAIN diffs :
                       /\ InPackage(diffs[k])
                       /\ getDependencyFromFile(diffs[k].file).name = t.name

\* A RegExp that matches alpha alone, a diff that touches beta alone, a
\* catalog with both: alpha is tested, strictly, and beta is not.
C28_Witness ==
    /\ pc = "Running"
    /\ selection.kind = "regex"
    /\ "beta" \in DOMAIN allPackages.data
    /\ \A k \in DOMAIN diffs : diffs[k].file = <<typesDirectoryName, "beta", "index.d.ts">>
    /\ Len(inputs) = 1
    /\ inputs[1] = [path |-> <<"alpha">>, onlyTestTsNext |-> FALSE, expectOnly |-> FALSE]

-----------------------------------------------------------------------------
(* Properties of the dispatch.                                              *)

\* Worker w listens while a job of the list is still unclaimed.
IdleWithWork(w) ==
    pc = "Running" /\ child[w].state = "listening" /\ inputIndex < Len(inputs)

\* C29: the i-th dispatch is that of the i-th job of the list; a dispatch
\* hands the earliest unclaimed job to a worker that was listening, which is
\* busy with it afterwards; a worker that listens while a job is unclaimed can
\* receive that job at once, whatever the other workers do, and does not
\* stay in that state for ever.
C29_WorkStealingInOrder ==
    /\ [](\A i \in DOMAIN sent : sent[i][2] = i)
    /\ [](\A w \in DOMAIN child : IdleWithWork(w) => ENABLED WorkerReady(w))
    /\ [][sent' # sent =>
            LET w == sent'[Len(sent')][1]
                j == sent'[Len(sent')][2]
            IN  /\ sent' = Append(sent, <<w, j>>)
                /\ j = inputIndex + 1
                /\ \A k \in 1..inputIndex : \E i \in DOMAIN sent : sent[i][2] = k
                /\ child[w].state = "listening"
                /\ child'[w] = [state |-> "busy", job |-> j]
                /\ \A v \in DOMAIN child \ {w} : child'[v] = child[v]]_vars
    /\ \A w \in 1..MaxProcs : []<>~(w \in DOMAIN child /\ IdleWithWork(w))

\* Two workers, three jobs: the worker that finished first (the second one)
\* received the third job while the first worker was still busy with job 1.
C29_Witness ==
    /\ Len(child) = 2
    /\ Len(sent) = 3
    /\ sent[1] = <<1, 1>>
    /\ sent[2] = <<2, 2>>
    /\ sent[3] = <<2, 3>>
    /\ child[1] = [state |-> "busy", job |-> 1]

-----------------------------------------------------------------------------
(* Properties of the correlation of results with jobs.                      *)

\* C30: the pending-job table gains a job only in a step that hands one
\* result to handleOutput, and the job gained is the one whose path the
\* result carries, which a worker held; whatever the order of arrival, the
\* line printed and the failure kept under the path of a finished job carry
\* the status of that very job: OK iff it passed, else its own diagnostic.
C30_ResultsCorrelatedByPath ==
    /\ [][finished' # finished =>
            /\ Len(console') = Len(console) + 1
            /\ \A j \in finished' \ finished :
                   /\ console'[Len(console')].path = inputs[j].path
                   /\ Holders(j) # {}
            /\ finished \subseteq finished']_vars
    /\ [](\A j \in finished :
              /\ \A i \in Results(j) : console[i].line = OK <=> outcome[j] = "pass"
              /\ \A i \in Failures(j) : allFailures[i][2] = StatusOfJob(j)
              /\ outcome[j] # "pass" => Failures(j) # {})

\* Three jobs, the second fails: the results arrive in the order 2, 3, 1,
\* and the one failure kept is that of job 2.
C30_Witness ==
    /\ Len(inputs) = 3
    /\ finished = {1, 2, 3}
    /\ Len(console) = 3
    /\ console[1].path = inputs[2].path
    /\ console[2].path = inputs[3].path
    /\ console[3].path = inputs[1].path
    /\ allFailures = <<<<inputs[2].path, "error in 2">>>>

-----------------------------------------------------------------------------
(* Properties of the order of the affected packages.                        *)

\* The same ids in every order.
Orderings(s) ==
    {[i \in DOMAIN s |-> s[f[i]]] :
        f \in {g \in [DOMAIN s -> DOMAIN s] : \A i, j \in DOMAIN s : g[i] = g[j] => i = j}}

\* The list goes up strictly by name and then by major version.
SortedByNameAndMajor(list) ==
    \A i, j \in DOMAIN list : i < j => Before(list[i], list[j])

-----------------------------------------------------------------------------
(* Properties of the webhook's update runner.                               *)

\* The calls of work() whose update is in progress.
Updating == {i \in DOMAIN works : works[i] = AtDoOnce}

\* C32: at no moment are two updates (two calls of doOnce) in progress.
C32_OneUpdateAtATime == Cardinality(Updating) <= 1

\* The request asked for an update: it was signed and pushed to the source branch.
AskedForUpdate(k) == requests[k].result \in {"started", "deferred"}

\* C33: a request for an update that arrived while an update was in progress
\* did not start one at once, and either an update has started since it
\* arrived or a call of work() is about to start one.
C33_RequestDuringUpdateNotLost ==
    \A k \in DOMAIN requests :
        AskedForUpdate(k) /\ requests[k].during =>
            /\ requests[k].result = "deferred"
            /\ \/ requests[k].served
               \/ anyUpdatesWhileWorking /\ works # <<>>

\* C34: when finitely many requests arrive and every update completes, the
\* runner is eventually idle for good: no call of work() remains, unless a
\* failed update has ended the process.
C34_RunnerEventuallyIdle == <>[](works = <<>> \/ server = "closed")

\* The body of a request is a push to the source branch.
PushToSourceBranch(req) ==
    LET body == parseJson(req.data)
    IN  ~IsError(body) /\ body.ref = "refs/heads/" \o sourceBranch

\* C35: only a POST that carries the digest of its body under the key and
\* pushes to refs/heads/<source branch> asks for an update, and the arrival of
\* any other POST leaves working, anyUpdatesWhileWorking and the calls of
\* work() as they were.
C35_UpdateOnlyForSignedPushToSource ==
    [][\A data \in Bodies : \A signature \in Signatures(data) :
          Post(data, signature) =>
              LET req == requests'[Len(requests')]
                  valid == /\ signature = getDigest(key, data)
                           /\ PushToSourceBranch(req)
              IN  /\ req.result \in {"started", "deferred"} => valid
                  /\ ~valid => UNCHANGED <<working, anyUpdatesWhileWorking, works>>]_vars

\* A POST signed under another key and a push to another branch were both
\* received while an update was running.
C35_Witness ==
    /\ \E k \in DOMAIN requests :
          /\ requests[k].result = "rejected"
          /\ requests[k].signature = getDigest("guess", requests[k].data)
          /\ PushToSourceBranch(requests[k])
          /\ requests[k].during
    /\ \E k \in DOMAIN requests :
          /\ requests[k].result = "ignored"
          /\ requests[k].signature = getDigest(key, requests[k].data)

\* The file lies under types/<pkg.subDirectoryPath>/.
Under(file, pkg) ==
    LET dir == <<typesDirectoryName>> \o subDirectoryPath(pkg)
    IN  Len(file) > Len(dir) /\ SubSeq(file, 1, Len(dir)) = dir

\* The file lies in a version directory of the package directory types/<name>.
InVersionDirectory(file) ==
    Len(file) > 3 /\ parseMajorVersionFromDirectoryName(file[3]) # Undefined

\* C36 as stated: whatever file under types/<R.subDirectoryPath>/ was
\* classified, the id resolved to R.
C36_PathRoundTrip ==
    \A pkg \in allTypings(allPackages) :
        diffs # <<>> /\ Under(diffs[1].file, pkg) =>
            error = NoError /\ changedPackages = <<pkg>>

\* C36: a file under types/<R.subDirectoryPath>/ resolves to R, unless R is
\* the latest record and the file lies in a version directory v<n> of R's
\* directory: such a file is classified as version n of the package.
C36_PathRoundTripOutsideVersionDirectories ==
    \A pkg \in allTypings(allPackages) :
        /\ diffs # <<>>
        /\ Under(diffs[1].file, pkg)
        /\ pkg.isLatest => ~InVersionDirectory(diffs[1].file)
        => error = NoError /\ changedPackages = <<pkg>>

\* A file in the version directory of an older record was classified with
\* that major version and resolved to the record.
C36_Witness ==
    /\ diffs # <<>>
    /\ error = NoError
    /\ \E pkg \in allTypings(allPackages) :
          /\ ~pkg.isLatest
          /\ Under(diffs[1].file, pkg)
          /\ changedPackages = <<pkg>>
          /\ changedIds = <<[name |-> pkg.name, majorVersion |-> pkg.major]>>

-----------------------------------------------------------------------------
(* Properties of the job list.                                              *)

\* The ids of the diff that resolve to the record.
IdsOf(pkg) ==
    {i \in DOMAIN changedIds : tryGetTypingsData(allPackages, changedIds[i]) = pkg}

-----------------------------------------------------------------------------
(* Properties of parseDefinitions.                                          *)

\* The package directories of the listing.
Directories == {e.name : e \in {f \in Range(entries) : f.isDirectory}}

\* C38: when parseDefinitions has finished, sequentially or with child
\* processes whose outputs arrived in any order, `typings` has exactly one
\* key for each package directory, maps each to its typing info, and the
\* data file lists the same entries with the names in sorted order.
C38_ParsedMapIndependentOfOrder ==
    pc = "Written" =>
        /\ Len(typingInfos) = Cardinality(Directories)
        /\ asMap(typingInfos) = [n \in Directories |-> getTypingInfo(n)]
        /\ asMap(dataFile) = asMap(typingInfos)
        /\ Len(dataFile) = Len(typingInfos)
        /\ \A i, j \in DOMAIN dataFile :
               i < j => NameIndex(dataFile[i].packageName) < NameIndex(dataFile[j].packageName)

\* Child processes answered for three packages in an order that is neither
\* the listing's nor the sorted one, next to a file that is no package.
C38_Witness ==
    /\ pc = "Written"
    /\ parallel # Undefined
    /\ Cardinality(Directories) = 3
    /\ Len(entries) = 4
    /\ typingInfos # dataFile
    /\ [i \in DOMAIN typingInfos |-> typingInfos[i].packageName] # packageNames

-----------------------------------------------------------------------------
(* Properties of hasTypingFor.                                              *)

\* C39: after hasTypingFor(id) nothing was thrown, and the boolean returned
\* is TRUE exactly when getTypingsData(id) succeeds.
C39_HasTypingForTotal ==
    changedIds # <<>> =>
        /\ error = NoError
        /\ returned = ~IsError(getTypingsData(allPackages, changedIds[1]))

====
